---- MODULE Spec2Model ----
(***************************************************************************)
(* A model of the geometry-resolution and measurement code of the         *)
(* contextual redactor:                                                    *)
(*   src/utils.py                  merge_consecutive_word_rects,           *)
(*                                 find_best_text_matches_batch,           *)
(*                                 create_detailed_suggestions             *)
(*   src/measurement_utils.py      canvas_to_pdf_coords,                   *)
(*                                 pdf_to_canvas_coords                    *)
(*   src/measurement_processor.py  calculate_distance / _perimeter / _area *)
(*                                                                         *)
(* Conventions.                                                            *)
(*  - A Python str is a sequence of one-character strings.                 *)
(*  - A coordinate of a fitz.Rect is an integer count of 1/CoordDen of a   *)
(*    point, so that round(y0) is a real rounding.                         *)
(*  - A similarity score, a transformed coordinate and an area are exact   *)
(*    rationals [num, den]; a length is an exact sum of square roots.      *)
(*    Floating-point rounding is outside the model.                        *)
(***************************************************************************)
EXTENDS Integers, Sequences, FiniteSets, Bags, TLC

VARIABLES
    pc,             \* position of the operation in progress
    words,          \* analysis.pages[*].words, flattened in document order
    findings,       \* all_findings_with_source
    used,           \* words_by_page[*][*]['used'], as the set of used word indices
    queue,          \* findings still to process, in findings_by_page order
    suggestions,    \* detailed_suggestions
    report,         \* the mismatch report: a bag of texts
    fn,             \* pure-function runs: the function applied
    arg,            \* pure-function runs: its input
    res,            \* pure-function runs: its result
    page_calibrations,  \* MeasurementProcessor.page_calibrations
    measurements        \* MeasurementProcessor.measurements

vars == <<pc, words, findings, used, queue, suggestions, report, fn, arg, res,
          page_calibrations, measurements>>

\* ------------------------------------------------------------------------
\* Bounds of the model
\* ------------------------------------------------------------------------
MaxWords == 4
PageWords == 3     \* words on a full page of a generated document
AccountingFindings == 5
FailureFindings == 3
MaxRects == 3
MaxPoints == 4
MaxFindings == 2
MaxMeasurements == 3
MaxParagraphs == 3
MaxCalls == 3         \* calls that set calibrations, per behaviour
CoordDen == 2      \* a coordinate counts 1/CoordDen of a point

\* ------------------------------------------------------------------------
\* Generic helpers
\* ------------------------------------------------------------------------
Max(a, b) == IF a >= b THEN a ELSE b
Min(a, b) == IF a <= b THEN a ELSE b
Abs(a) == IF a >= 0 THEN a ELSE -a

SeqsUpTo(S, n) == UNION {[1..k -> S] : k \in 0..n}

RECURSIVE Flatten(_)
Flatten(ss) == IF ss = <<>> THEN <<>> ELSE Head(ss) \o Flatten(Tail(ss))

RECURSIVE SumSeq(_)
SumSeq(s) == IF s = <<>> THEN 0 ELSE Head(s) + SumSeq(Tail(s))

\* ------------------------------------------------------------------------
\* str.lower() and str.replace(), utils.py:70 and utils.py:89
\* ------------------------------------------------------------------------
UpperChars == <<"A","B","C","D","E","F","G","H","I","J","K","L","M",
                "N","O","P","Q","R","S","T","U","V","W","X","Y","Z">>
LowerChars == <<"a","b","c","d","e","f","g","h","i","j","k","l","m",
                "n","o","p","q","r","s","t","u","v","w","x","y","z">>

LowerMap ==
    [c \in {UpperChars[k] : k \in 1..Len(UpperChars)} |->
        LowerChars[CHOOSE k \in 1..Len(UpperChars) : UpperChars[k] = c]]

LowerChar(c) == IF c \in DOMAIN LowerMap THEN LowerMap[c] ELSE c

Lower(s) == [k \in 1..Len(s) |-> LowerChar(s[k])]

\* s.replace(c, "") for a one-character c
RemoveChar(s, c) == SelectSeq(s, LAMBDA x : x # c)

\* s.replace(c1 + c2, ""): left to right, non-overlapping
RECURSIVE RemovePair(_, _, _)
RemovePair(s, c1, c2) ==
    IF Len(s) < 2 THEN s
    ELSE IF s[1] = c1 /\ s[2] = c2 THEN RemovePair(Tail(Tail(s)), c1, c2)
    ELSE <<s[1]>> \o RemovePair(Tail(s), c1, c2)

\* utils.py:70, the normalisation of text_to_find
NormTarget(s) ==
    RemoveChar(RemoveChar(RemoveChar(RemoveChar(RemoveChar(RemoveChar(
        RemovePair(Lower(s), "'", "s"), "'"), "."), ","), "("), ")"), " ")

\* A candidate normalisation that keeps the periods
NormCandidate_KeepPeriods(s) ==
    RemoveChar(RemoveChar(RemoveChar(RemoveChar(RemoveChar(RemoveChar(
        RemovePair(Lower(s), "'", "s"), "'"), ","), "("), ")"), " "), "\"")

\* utils.py:89, the normalisation of the reconstructed candidate text
NormCandidate(s) == RemoveChar(NormTarget(s), "\"")

\* ------------------------------------------------------------------------
\* rapidfuzz.fuzz.ratio: 100 * (1 - indel(a, b) / (len(a) + len(b))),
\* indel(a, b) = len(a) + len(b) - 2 * lcs(a, b); 100 for two empty strings
\* ------------------------------------------------------------------------
\* One row of the longest-common-subsequence table: prev is the row of the
\* prefix of a without its last character ch, acc the new row up to column
\* j-1.  (LcsRowNext and LcsRowsNext test a length that always holds: the test
\* makes the evaluator compute each row before it goes on.)
LcsCell(prev, ch, b, j, acc) ==
    IF b[j] = ch THEN (IF j = 1 THEN 0 ELSE prev[j - 1]) + 1
    ELSE Max(prev[j], IF j = 1 THEN 0 ELSE acc[j - 1])

RECURSIVE LcsRow(_, _, _, _, _)
LcsRowNext(prev, ch, b, j, next) ==
    IF Len(next) = j THEN LcsRow(prev, ch, b, j + 1, next) ELSE next

LcsRow(prev, ch, b, j, acc) ==
    IF j > Len(b) THEN acc
    ELSE LcsRowNext(prev, ch, b, j, Append(acc, LcsCell(prev, ch, b, j, acc)))

RECURSIVE LcsRows(_, _, _, _)
LcsRowsNext(a, b, i, row) ==
    IF Len(row) = Len(b) THEN LcsRows(a, b, i + 1, row) ELSE row

LcsRows(a, b, i, prev) ==
    IF i > Len(a) THEN prev
    ELSE LcsRowsNext(a, b, i, LcsRow(prev, a[i], b, 1, <<>>))

Lcs(a, b) ==
    IF Len(a) = 0 \/ Len(b) = 0 THEN 0
    ELSE LcsRows(a, b, 1, [j \in 1..Len(b) |-> 0])[Len(b)]

IndelDistance(a, b) == Len(a) + Len(b) - 2 * Lcs(a, b)

\* The score as the exact rational num / den
Ratio(a, b) ==
    IF Len(a) + Len(b) = 0 THEN [num |-> 100, den |-> 1]
    ELSE [num |-> 100 * (Len(a) + Len(b) - IndelDistance(a, b)),
          den |-> Len(a) + Len(b)]

ScoreZero == [num |-> 0, den |-> 1]
ScoreGT(s, t) == s.num * t.den > t.num * s.den
ScoreGE(s, n) == s.num >= n * s.den
ScoreIs(s, n) == s.num = n * s.den
ScoreEq(s, t) == s.num * t.den = t.num * s.den

\* ------------------------------------------------------------------------
\* find_best_text_matches_batch, utils.py:58-106
\* W is the word list of the document, U the set of indices of used words,
\* words_to_search a sequence of indices into W.
\* ------------------------------------------------------------------------
NoMatch == [run |-> <<>>, score |-> ScoreZero]

\* utils.py:81, words_to_search[i:j+1] (i, j count from 1 here)
Slice(s, i, j) == [k \in 1..(j - i + 1) |-> s[i + k - 1]]

\* A scan that does not skip the runs holding a used word
AnyUsed_Ignored(run, U) == FALSE

\* utils.py:84
AnyUsed(run, U) == \E k \in 1..Len(run) : run[k] \in U

\* utils.py:87-89
Reconstructed(run, W) == Flatten([k \in 1..Len(run) |-> W[run[k]].content])

\* utils.py:92
CandidateScore(run, norm_text_to_find, W) ==
    Ratio(NormCandidate(Reconstructed(run, W)), norm_text_to_find)

\* A scan that lets a later run of equal score replace the best one
Better_LastMet(best, candidate_word_info, score) ==
    IF ~ScoreGT(best.score, score)
    THEN [run |-> candidate_word_info, score |-> score]
    ELSE best

\* utils.py:94-96
Better(best, candidate_word_info, score) ==
    IF ScoreGT(score, best.score)
    THEN [run |-> candidate_word_info, score |-> score]
    ELSE best

\* utils.py:76-99, the two nested loops with their breaks; the scan is at
\* start index i and end index j with the best run and score seen so far.
RECURSIVE ScanRuns(_, _, _, _, _, _, _)
\* utils.py:98-99
ScanOn(i, j, best, norm_text_to_find, words_to_search, W, U) ==
    IF ScoreIs(best.score, 100)
    THEN ScanRuns(i + 1, i + 1, best, norm_text_to_find, words_to_search, W, U)
    ELSE ScanRuns(i, j + 1, best, norm_text_to_find, words_to_search, W, U)

\* utils.py:81-96
ScanRun(i, j, best, norm_text_to_find, words_to_search, W, U, candidate_word_info) ==
    IF AnyUsed(candidate_word_info, U)                                \* :84-85
    THEN ScanRuns(i, j + 1, best, norm_text_to_find, words_to_search, W, U)
    ELSE ScanOn(i, j,
                Better(best, candidate_word_info,
                       CandidateScore(candidate_word_info, norm_text_to_find, W)),
                norm_text_to_find, words_to_search, W, U)

ScanRuns(i, j, best, norm_text_to_find, words_to_search, W, U) ==
    IF i > Len(words_to_search) THEN best
    ELSE IF j = i /\ ScoreIs(best.score, 100) THEN best              \* :77-78
    ELSE IF j > Len(words_to_search)
         THEN ScanRuns(i + 1, i + 1, best, norm_text_to_find, words_to_search, W, U)
    ELSE ScanRun(i, j, best, norm_text_to_find, words_to_search, W, U,
                 Slice(words_to_search, i, j))

\* A threshold that a score equal to min_score does not pass
Threshold_Strict(best, min_score) ==
    IF best.score.num > min_score * best.score.den THEN best ELSE NoMatch

\* utils.py:101-104
Threshold(best, min_score) == IF ScoreGE(best.score, min_score) THEN best ELSE NoMatch

\* utils.py:69-104, the body of the loop over text_to_find_list
BestMatch(text_to_find, words_to_search, min_score, W, U) ==
    Threshold(ScanRuns(1, 1, NoMatch, NormTarget(text_to_find), words_to_search, W, U),
              min_score)

find_best_text_matches_batch(text_to_find_list, words_to_search, min_score, W, U) ==
    [k \in 1..Len(text_to_find_list) |->
        BestMatch(text_to_find_list[k], words_to_search, min_score, W, U)]

\* ------------------------------------------------------------------------
\* sorted(..., key=...): Python's stable sort, on items [k1, k2, val]
\* ordered by the pair (k1, k2)
\* ------------------------------------------------------------------------
KeyLE(a, b) == a.k1 < b.k1 \/ (a.k1 = b.k1 /\ a.k2 <= b.k2)

RECURSIVE InsertStable(_, _)
InsertStable(x, sorted) ==
    IF sorted = <<>> THEN <<x>>
    ELSE IF KeyLE(Head(sorted), x)
         THEN <<Head(sorted)>> \o InsertStable(x, Tail(sorted))
         ELSE <<x>> \o sorted

RECURSIVE SortedFrom(_, _)
SortedFrom(items, acc) ==
    IF items = <<>> THEN acc
    ELSE SortedFrom(Tail(items), InsertStable(Head(items), acc))

StableSort(items) == SortedFrom(items, <<>>)

Vals(items) == [k \in 1..Len(items) |-> items[k].val]

\* ------------------------------------------------------------------------
\* fitz.Rect (PyMuPDF), as used by utils.py
\* ------------------------------------------------------------------------
Rect(x0, y0, x1, y1) == [x0 |-> x0, y0 |-> y0, x1 |-> x1, y1 |-> y1]

\* fitz.Rect(): the rectangle (0, 0, 0, 0)
EmptyRect == Rect(0, 0, 0, 0)

\* Rect.is_empty
IsEmpty(r) == r.x0 >= r.x1 \/ r.y0 >= r.y1

\* Rect.height
Height(r) == Max(0, r.y1 - r.y0)

\* Rect.__or__ / Rect.include_rect: an empty operand is ignored, an empty
\* accumulator is replaced
IncludeRect(acc, r) ==
    IF IsEmpty(r) THEN acc
    ELSE IF IsEmpty(acc) THEN r
    ELSE Rect(Min(acc.x0, r.x0), Min(acc.y0, r.y0), Max(acc.x1, r.x1), Max(acc.y1, r.y1))

\* Python round() of the coordinate v / CoordDen: to nearest, ties to even
RoundCoord(v) ==
    LET q == v \div CoordDen
        r == v % CoordDen
    IN  IF 2 * r < CoordDen THEN q
        ELSE IF 2 * r > CoordDen THEN q + 1
        ELSE IF q % 2 = 0 THEN q ELSE q + 1

\* ------------------------------------------------------------------------
\* merge_consecutive_word_rects, utils.py:25-55
\* ------------------------------------------------------------------------
\* utils.py:45-47 and 51-53: merged_run = fitz.Rect(); merged_run |= r
RECURSIVE MergedRun(_, _)
MergedRun(current_run_group, merged_run) ==
    IF current_run_group = <<>> THEN merged_run
    ELSE MergedRun(Tail(current_run_group), IncludeRect(merged_run, Head(current_run_group)))

\* A join that a gap equal to the tolerance does not pass
JoinsRun_Strict(prev_rect, current_rect) ==
    4 * (current_rect.x0 - prev_rect.x1) < Height(prev_rect) * 3

\* utils.py:40-42: the rect joins the run of which prev_rect is the last member
JoinsRun(prev_rect, current_rect) ==
    LET max_gap_x4 == Height(prev_rect) * 3          \* 4 * (height * 0.75)
        actual_gap == current_rect.x0 - prev_rect.x1
    IN  4 * actual_gap <= max_gap_x4

\* utils.py:36-54: the walk over one line's rects, sorted by x0
RECURSIVE MergeLine(_, _, _)
MergeLine(sorted_rects, i, current_run_group) ==
    IF i > Len(sorted_rects)
    THEN <<MergedRun(current_run_group, EmptyRect)>>                  \* :50-54
    ELSE IF JoinsRun(current_run_group[Len(current_run_group)], sorted_rects[i])
         THEN MergeLine(sorted_rects, i + 1, Append(current_run_group, sorted_rects[i]))
         ELSE <<MergedRun(current_run_group, EmptyRect)>>             \* :45-49
              \o MergeLine(sorted_rects, i + 1, <<sorted_rects[i]>>)

\* utils.py:28-30: lines[round(rect.y0)]
LineOf(word_rects, line_y) == SelectSeq(word_rects, LAMBDA r : RoundCoord(r.y0) = line_y)

\* utils.py:32: sorted(lines.keys())
RECURSIVE AscendingKeys(_)
AscendingKeys(S) ==
    IF S = {} THEN <<>>
    ELSE LET m == CHOOSE x \in S : \A y \in S : x <= y
         IN  <<m>> \o AscendingKeys(S \ {m})

\* utils.py:33
SortByX0(rects) ==
    Vals(StableSort([k \in 1..Len(rects) |-> [k1 |-> rects[k].x0, k2 |-> 0, val |-> rects[k]]]))

merge_consecutive_word_rects(word_rects) ==
    IF word_rects = <<>> THEN <<>>
    ELSE LET keys == AscendingKeys({RoundCoord(word_rects[k].y0) : k \in 1..Len(word_rects)})
         IN  Flatten([n \in 1..Len(keys) |->
                 LET sorted_rects == SortByX0(LineOf(word_rects, keys[n]))
                 IN  MergeLine(sorted_rects, 2, <<sorted_rects[1]>>)])

\* ------------------------------------------------------------------------
\* create_detailed_suggestions, utils.py:109-233
\*
\* A word is [content, page_number, offset, length, polygon]: page.page_number
\* (from 1), word.span, word.polygon (a flat list x, y, x, y, ... counting
\* 1/PolyDen of an inch).  A finding is [text, source] with source =
\* [kind, page_number, offset, length]: kind "paragraph" (source_paragraph:
\* bounding_regions[0].page_number and spans[0]), "page" (source_page) or
\* "none" (neither key).
\* ------------------------------------------------------------------------
ScalingFactor == 72
AcceptScore == 90
DefaultMinScore == 90
PolyDen == 4 * CoordDen

\* utils.py:137 and 140
PageNum(item) == item.source.page_number - 1

\* One word list shared by all pages
WordsByPage_AllPages(W, page_num) == [k \in 1..Len(W) |-> k]

\* utils.py:122-125: words_by_page[page_num], as indices into the word list
WordsByPage(W, page_num) ==
    SelectSeq([k \in 1..Len(W) |-> k], LAMBDA k : W[k].page_number - 1 = page_num)

\* utils.py:129-141 with the iteration order of utils.py:144 and 150: the
\* findings grouped by page, pages in order of first appearance; a finding
\* with neither source is in no group
Grouped(F) == SelectSeq([k \in 1..Len(F) |-> k], LAMBDA k : F[k].source.kind # "none")

FindingsByPage(F, page_num) == SelectSeq(Grouped(F), LAMBDA k : PageNum(F[k]) = page_num)

RECURSIVE PageKeys(_, _, _)
PageKeys(F, order, keys) ==
    IF order = <<>> THEN keys
    ELSE LET p == PageNum(F[Head(order)])
         IN  PageKeys(F, Tail(order),
                      IF \E k \in 1..Len(keys) : keys[k] = p THEN keys ELSE Append(keys, p))

ProcessingOrder(F) ==
    LET keys == PageKeys(F, Grouped(F), <<>>)
    IN  Flatten([k \in 1..Len(keys) |-> FindingsByPage(F, keys[k])])

\* utils.py:159-169
WordsToSearch(item, W) ==
    IF item.source.kind = "paragraph"
    THEN SelectSeq(WordsByPage(W, PageNum(item)),
                   LAMBDA k : /\ W[k].offset >= item.source.offset
                              /\ W[k].offset + W[k].length
                                     <= item.source.offset + item.source.length)
    ELSE WordsByPage(W, PageNum(item))

\* utils.py:196-200: fitz.Quad(points).rect, the bounding box of the four
\* scaled points
ToCoord(v) == (v * ScalingFactor * CoordDen) \div PolyDen

QuadRect(polygon) ==
    LET xs == {ToCoord(polygon[k]) : k \in {1, 3, 5, 7}}
        ys == {ToCoord(polygon[k]) : k \in {2, 4, 6, 8}}
        lo(S) == CHOOSE x \in S : \A y \in S : x <= y
        hi(S) == CHOOSE x \in S : \A y \in S : x >= y
    IN  Rect(lo(xs), lo(ys), hi(xs), hi(ys))

\* utils.py:193-200
IndividualWordRects(run, W) ==
    LET with_polygon == SelectSeq(run, LAMBDA k : Len(W[k].polygon) >= 8)
    IN  [k \in 1..Len(with_polygon) |-> QuadRect(W[with_polygon[k]].polygon)]

\* A final sort on the page number alone
SortSuggestions_ByPage(ss) ==
    Vals(StableSort([k \in 1..Len(ss) |-> [k1 |-> ss[k].page_num, k2 |-> 0, val |-> ss[k]]]))

\* utils.py:228-231
SuggestionKey(s) ==
    [k1 |-> s.page_num, k2 |-> IF s.rects # <<>> THEN s.rects[1].y0 ELSE 0, val |-> s]

SortSuggestions(ss) == Vals(StableSort([k \in 1..Len(ss) |-> SuggestionKey(ss[k])]))

\* A report built from sets of texts, which loses the multiplicities
MismatchReport_Sets(F, ss) ==
    IF Len(ss) # Len(F)
    THEN SetToBag({F[k].text : k \in 1..Len(F)} \ {ss[k].text : k \in 1..Len(ss)})
    ELSE EmptyBag

\* utils.py:216-220: Counter(llm texts) - Counter(mapped texts)
RECURSIVE TextCounts(_)
TextCounts(texts) ==
    IF texts = <<>> THEN EmptyBag ELSE SetToBag({Head(texts)}) (+) TextCounts(Tail(texts))

MismatchReport(F, ss) ==
    IF Len(ss) # Len(F)                                               \* :212
    THEN TextCounts([k \in 1..Len(F) |-> F[k].text])
             (-) TextCounts([k \in 1..Len(ss) |-> ss[k].text])
    ELSE EmptyBag

\* An index that keeps the used flags it finds
BuildIndex_KeepsUsed ==
    /\ pc = "start"
    /\ used' = used
    /\ suggestions' = <<>>
    /\ queue' = ProcessingOrder(findings)
    /\ pc' = "match"
    /\ UNCHANGED <<words, findings, report, fn, arg, res, page_calibrations, measurements>>

\* utils.py:118-141
BuildIndex ==
    /\ pc = "start"
    /\ used' = {}
    /\ suggestions' = <<>>
    /\ queue' = ProcessingOrder(findings)
    /\ pc' = "match"
    /\ UNCHANGED <<words, findings, report, fn, arg, res, page_calibrations, measurements>>

\* utils.py:202-209
Emit(ss, item, index, best_match_words_info, individual_word_rects) ==
    IF individual_word_rects # <<>>
    THEN Append(ss, [id |-> Len(ss),
                     finding |-> index,
                     text |-> item.text,
                     page_num |-> PageNum(item),
                     rects |-> merge_consecutive_word_rects(individual_word_rects),
                     matched |-> best_match_words_info])
    ELSE ss

\* A failed match that still consumes the words it searched
Accept_ConsumesOnFailure(item, index, match) ==
    /\ used' = used \cup (IF ScoreGE(match.score, AcceptScore)
                          THEN {match.run[k] : k \in 1..Len(match.run)}
                          ELSE {WordsToSearch(item, words)[k] :
                                   k \in 1..Len(WordsToSearch(item, words))})
    /\ suggestions' = IF ScoreGE(match.score, AcceptScore)
                      THEN Emit(suggestions, item, index, match.run,
                                IndividualWordRects(match.run, words))
                      ELSE suggestions

\* utils.py:184-209
Accept(item, index, match) ==
    IF ScoreGE(match.score, AcceptScore)                              \* :184
    THEN /\ used' = used \cup {match.run[k] : k \in 1..Len(match.run)} \* :188-189
         /\ suggestions' = Emit(suggestions, item, index, match.run,
                                IndividualWordRects(match.run, words))
    ELSE UNCHANGED <<used, suggestions>>

\* utils.py:178-209, one iteration.  A suggestion also records the matched
\* run (the indices of best_match_words_info) and the index of its finding in
\* all_findings_with_source, which the code does not keep.
MatchFinding ==
    /\ pc = "match"
    /\ queue # <<>>
    /\ Accept(findings[Head(queue)], Head(queue),
              find_best_text_matches_batch(<<findings[Head(queue)].text>>,
                  WordsToSearch(findings[Head(queue)], words),
                  DefaultMinScore, words, used)[1])
    /\ queue' = Tail(queue)
    /\ UNCHANGED <<pc, words, findings, report, fn, arg, res, page_calibrations, measurements>>

\* utils.py:211-233
Finish ==
    /\ pc = "match"
    /\ queue = <<>>
    /\ report' = MismatchReport(findings, suggestions)
    /\ suggestions' = SortSuggestions(suggestions)
    /\ pc' = "done"
    /\ UNCHANGED <<words, findings, used, queue, fn, arg, res, page_calibrations, measurements>>

\* ------------------------------------------------------------------------
\* The inputs of create_detailed_suggestions: generated documents and
\* findings.  A document is a list of word contents laid out PageWords to a
\* page and LineWords to a line; the first line of a page is its paragraph.
\* ------------------------------------------------------------------------
LineWords == PageWords - 1

Laura == <<"L", "a", "u", "r", "a">>
Bennett == <<"B", "e", "n", "n", "e", "t", "t">>
LauraBennett == Laura \o <<" ">> \o Bennett
Zoe == <<"Z", "o", "e">>
John == <<"J", "o", "h", "n">>
SmithDot == <<"S", "m", "i", "t", "h", ".">>
Smyth == <<"S", "m", "y", "t", "h">>
JohnSmith == <<"J", "o", "h", "n", "S", "m", "i", "t", "h">>

PageOfIndex(i) == 1 + (i - 1) \div PageWords
LineOfIndex(i) == ((i - 1) % PageWords) \div LineWords
ColOfIndex(i) == ((i - 1) % PageWords) % LineWords

\* The quadrilateral upper-left, upper-right, lower-right, lower-left of the
\* word in the given line and column, in 1/PolyDen inch: a word is 4 units
\* wide and 2 high, words are 1 unit apart and lines 1 unit apart.
WordPolygon(line, col) ==
    LET x0 == 5 * col + 1
        y0 == 3 * line + 1
    IN  <<x0, y0, x0 + 4, y0, x0 + 4, y0 + 2, x0, y0 + 2>>

MakeWords(contents) ==
    [i \in 1..Len(contents) |->
        [content |-> contents[i],
         page_number |-> PageOfIndex(i),
         offset |-> SumSeq([k \in 1..(i - 1) |-> Len(contents[k]) + 1]),
         length |-> Len(contents[i]),
         polygon |-> WordPolygon(LineOfIndex(i), ColOfIndex(i))]]

Documents(vocab, maxWords) ==
    {MakeWords(c) : c \in UNION {[1..n -> vocab] : n \in 1..maxWords}}

\* The span from the first to the last of the words with indices in S
SpanOf(W, S) ==
    LET first == CHOOSE k \in S : \A m \in S : k <= m
        last == CHOOSE k \in S : \A m \in S : k >= m
    IN  [offset |-> W[first].offset,
         length |-> W[last].offset + W[last].length - W[first].offset]

Source(kind, page_number, span) ==
    [kind |-> kind, page_number |-> page_number,
     offset |-> span.offset, length |-> span.length]

NoSource == [kind |-> "none", page_number |-> 0, offset |-> 0, length |-> 0]

PageSources(W) ==
    {Source("page", p, SpanOf(W, {k \in 1..Len(W) : W[k].page_number = p})) :
        p \in {W[k].page_number : k \in 1..Len(W)}}

\* The paragraph of a page: the words of its first line
ParagraphSources(W) ==
    {Source("paragraph", p,
            SpanOf(W, {k \in 1..Len(W) : W[k].page_number = p /\ LineOfIndex(k) = 0})) :
        p \in {W[k].page_number : k \in 1..Len(W)}}

Sources(W, kinds) ==
    (IF "page" \in kinds THEN PageSources(W) ELSE {})
        \cup (IF "paragraph" \in kinds THEN ParagraphSources(W) ELSE {})
        \cup (IF "none" \in kinds THEN {NoSource} ELSE {})

FindingLists(W, texts, kinds, maxFindings) ==
    SeqsUpTo([text : texts, source : Sources(W, kinds)], maxFindings)

\* The families of inputs: overlapping names over several pages; the same
\* names on one page, its paragraph and the page itself as sources; a near
\* miss of the fuzzy threshold; and longer lists for the accounting of matches.
Scenarios ==
    { [vocab |-> {Laura, Bennett}, texts |-> {Bennett, LauraBennett},
       kinds |-> {"page"}, maxWords |-> MaxWords, maxFindings |-> MaxFindings],
      [vocab |-> {Laura, Bennett}, texts |-> {Laura, Bennett, LauraBennett},
       kinds |-> {"page", "paragraph"}, maxWords |-> PageWords, maxFindings |-> MaxFindings],
      [vocab |-> {John, SmithDot, Smyth}, texts |-> {JohnSmith},
       kinds |-> {"paragraph", "none"}, maxWords |-> LineWords, maxFindings |-> MaxFindings],
      [vocab |-> {Bennett}, texts |-> {Bennett, LauraBennett, Zoe},
       kinds |-> {"page"}, maxWords |-> PageWords, maxFindings |-> AccountingFindings] }

Idle == <<>>

Init ==
    /\ pc = "start"
    /\ \E sc \in Scenarios :
           /\ words \in Documents(sc.vocab, sc.maxWords)
           /\ findings \in FindingLists(words, sc.texts, sc.kinds, sc.maxFindings)
    /\ used = {}
    /\ queue = <<>>
    /\ suggestions = <<>>
    /\ report = EmptyBag
    /\ page_calibrations = <<>>
    /\ measurements = <<>>
    /\ fn = "none"
    /\ arg = Idle
    /\ res = Idle

Next == BuildIndex \/ MatchFinding \/ Finish

Spec == Init /\ [][Next]_vars

\* ------------------------------------------------------------------------
\* Properties of create_detailed_suggestions
\* ------------------------------------------------------------------------
RunSet(run) == {run[k] : k \in 1..Len(run)}

Contents(W) == [k \in 1..Len(W) |-> W[k].content]

Texts(F) == [k \in 1..Len(F) |-> F[k].text]

\* C1 (word exclusivity): no word belongs to the matched runs of two different
\* suggestions, and a step that adds a suggestion matches no word that was
\* already marked used.
C1_DisjointRuns ==
    \A a, b \in 1..Len(suggestions) :
        a # b => RunSet(suggestions[a].matched) \cap RunSet(suggestions[b].matched) = {}

C1_NoUsedWordMatched ==
    (pc = "match" /\ Len(suggestions') > Len(suggestions))
        => RunSet(suggestions'[Len(suggestions')].matched) \cap used = {}

C1_WordExclusivity == []C1_DisjointRuns /\ [][C1_NoUsedWordMatched]_vars

\* Two findings with one text placed on two occurrences of it on one page
C1_Witness ==
    /\ pc = "done"
    /\ \E a, b \in 1..Len(suggestions) :
           /\ a # b
           /\ suggestions[a].text = suggestions[b].text
           /\ suggestions[a].page_num = suggestions[b].page_num

\* C2 (longest-first priority): with the words Laura, Bennett in one
\* paragraph and the findings "Bennett" and "Laura Bennett" scoped to that
\* paragraph, in either input order, the two-word run is assigned to
\* "Laura Bennett".
C2_LongestFirst ==
    ( /\ pc = "done"
      /\ Contents(words) = <<Laura, Bennett>>
      /\ Len(findings) = 2
      /\ {findings[1].text, findings[2].text} = {Bennett, LauraBennett}
      /\ \A k \in 1..2 : findings[k].source.kind = "paragraph" )
    => \E a \in 1..Len(suggestions) :
           suggestions[a].text = LauraBennett /\ suggestions[a].matched = <<1, 2>>

\* C3 (unmatched accounting): at the end of a call the suggestions and the
\* reported findings add up to the input findings, and the report holds
\* exactly the texts, with multiplicity, of the findings with no suggestion.
Unplaced == SelectSeq([k \in 1..Len(findings) |-> k],
                      LAMBDA k : \A a \in 1..Len(suggestions) : suggestions[a].finding # k)

C3_UnmatchedAccounting ==
    pc = "done" =>
        /\ Len(suggestions) + BagCardinality(report) = Len(findings)
        /\ report = TextCounts([k \in 1..Len(Unplaced) |-> findings[Unplaced[k]].text])

\* Five findings, two of them absent from the layout
C3_Witness ==
    /\ pc = "done"
    /\ Len(findings) = 5
    /\ Len(suggestions) = 3
    /\ BagCardinality(report) = 2
    /\ BagToSet(report) = {Zoe}

\* C4 (output order): the returned list is ascending by (page_num, y0 of the
\* first rect).
C4_OutputOrder ==
    pc = "done" =>
        \A a, b \in 1..Len(suggestions) :
            a < b => \/ suggestions[a].page_num < suggestions[b].page_num
                     \/ /\ suggestions[a].page_num = suggestions[b].page_num
                        /\ suggestions[a].rects[1].y0 <= suggestions[b].rects[1].y0

\* Suggestions created in one order and returned in the other, across pages
\* and within a page
C4_Witness ==
    /\ pc = "done"
    /\ Len(suggestions) = 2
    /\ suggestions[1].id > suggestions[2].id
    /\ suggestions[1].page_num = suggestions[2].page_num
    /\ suggestions[1].rects[1].y0 < suggestions[2].rects[1].y0

\* C6 (fuzzy threshold boundary): "JohnSmith" against John, Smith. scores 100
\* and is matched; against John, Smyth the best run scores 100 * (1 - 2/18),
\* below 90: the finding is reported and no word is consumed.
C6_Match ==
    (Contents(words) = <<John, SmithDot>>) =>
        /\ ScoreIs(BestMatch(JohnSmith, <<1, 2>>, DefaultMinScore, words, {}).score, 100)
        /\ (pc = "done" /\ Len(findings) > 0 /\ findings[1].source.kind = "paragraph")
               => /\ Len(suggestions) = 1
                  /\ suggestions[1].matched = <<1, 2>>
                  /\ used = {1, 2}

C6_NearMiss ==
    (Contents(words) = <<John, Smyth>>) =>
        /\ ScoreEq(ScanRuns(1, 1, NoMatch, NormTarget(JohnSmith), <<1, 2>>, words, {}).score,
                   [num |-> 100 * (18 - 2), den |-> 18])
        /\ ~ScoreGE(ScanRuns(1, 1, NoMatch, NormTarget(JohnSmith), <<1, 2>>, words, {}).score,
                    DefaultMinScore)
        /\ used = {}
        /\ suggestions = <<>>
        /\ pc = "done" => report = TextCounts(Texts(findings))

C6_FuzzyThreshold == C6_Match /\ C6_NearMiss

C6_Witness ==
    /\ pc = "done"
    /\ Contents(words) = <<John, Smyth>>
    /\ Len(findings) = 1
    /\ findings[1].source.kind = "paragraph"
    /\ report = SetToBag({JohnSmith})

\* ------------------------------------------------------------------------
\* Runs of find_best_text_matches_batch on its own: any used flags, a list
\* of targets and a threshold
\* ------------------------------------------------------------------------
MinScores == {50, 90, 100}

InitMatch ==
    /\ pc = "call"
    /\ fn = "find_best_text_matches_batch"
    /\ words \in Documents({Laura, Bennett}, PageWords)
    /\ used \in SUBSET (1..Len(words))
    /\ \E text_to_find_list \in UNION {[1..n -> {Bennett, LauraBennett}] : n \in 1..2},
          min_score \in MinScores :
           arg = [text_to_find_list |-> text_to_find_list,
                  words_to_search |-> [k \in 1..Len(words) |-> k],
                  min_score |-> min_score]
    /\ res = Idle
    /\ findings = <<>>
    /\ queue = <<>>
    /\ suggestions = <<>>
    /\ report = EmptyBag
    /\ page_calibrations = <<>>
    /\ measurements = <<>>

CallFindBest ==
    /\ pc = "call"
    /\ fn = "find_best_text_matches_batch"
    /\ res' = find_best_text_matches_batch(arg.text_to_find_list, arg.words_to_search,
                                           arg.min_score, words, used)
    /\ pc' = "returned"
    /\ UNCHANGED <<words, findings, used, queue, suggestions, report, fn, arg, page_calibrations, measurements>>

SpecMatch == InitMatch /\ [][CallFindBest]_vars

\* C5 (best-match result): for each target the result is an all-unused
\* contiguous run whose score is the maximum over all such runs when that
\* maximum reaches min_score, and the empty run with score 0 otherwise; it is
\* the result of the scan that never stops early.
UnusedRuns(words_to_search, U) ==
    {Slice(words_to_search, i, j) : i \in 1..Len(words_to_search), j \in 1..Len(words_to_search)}
        \ {run \in {Slice(words_to_search, i, j) :
                       i \in 1..Len(words_to_search), j \in 1..Len(words_to_search)} :
               Len(run) = 0 \/ AnyUsed(run, U)}

IsMaxScore(score, text_to_find, words_to_search, W, U) ==
    LET scores == {Ratio(NormCandidate(Reconstructed(run, W)), NormTarget(text_to_find)) :
                       run \in UnusedRuns(words_to_search, U)} \cup {ScoreZero}
    IN  /\ \E t \in scores : ScoreEq(score, t)
        /\ \A t \in scores : ~ScoreGT(t, score)

\* The scan of every run in the order of the loops, with no break
RECURSIVE FullScan(_, _, _, _, _, _, _)
FullScan(i, j, best, norm_text_to_find, words_to_search, W, U) ==
    IF i > Len(words_to_search) THEN best
    ELSE IF j > Len(words_to_search)
         THEN FullScan(i + 1, i + 1, best, norm_text_to_find, words_to_search, W, U)
    ELSE IF AnyUsed(Slice(words_to_search, i, j), U)
         THEN FullScan(i, j + 1, best, norm_text_to_find, words_to_search, W, U)
    ELSE FullScan(i, j + 1,
                  IF ScoreGT(Ratio(NormCandidate(Reconstructed(Slice(words_to_search, i, j), W)),
                                   norm_text_to_find), best.score)
                  THEN [run |-> Slice(words_to_search, i, j),
                        score |-> Ratio(NormCandidate(Reconstructed(Slice(words_to_search, i, j), W)),
                                        norm_text_to_find)]
                  ELSE best,
                  norm_text_to_find, words_to_search, W, U)

C5_ResultOf(text_to_find, result) ==
    LET full == FullScan(1, 1, NoMatch, NormTarget(text_to_find), arg.words_to_search, words, used)
    IN  /\ IF ScoreGE(full.score, arg.min_score)
           THEN /\ result.run \in UnusedRuns(arg.words_to_search, used)
                /\ ScoreEq(result.score,
                           Ratio(NormCandidate(Reconstructed(result.run, words)),
                                 NormTarget(text_to_find)))
                /\ IsMaxScore(result.score, text_to_find, arg.words_to_search, words, used)
                /\ result = full
           ELSE result = NoMatch
        /\ IsMaxScore(full.score, text_to_find, arg.words_to_search, words, used)

C5_BestMatch ==
    (pc = "returned" /\ fn = "find_best_text_matches_batch") =>
        /\ Len(res) = Len(arg.text_to_find_list)
        /\ \A k \in 1..Len(res) : C5_ResultOf(arg.text_to_find_list[k], res[k])

\* A run that scores 100 is met while unused runs are still unscanned, and a
\* target of the same call has no run that reaches the threshold
C5_Witness ==
    /\ pc = "returned"
    /\ fn = "find_best_text_matches_batch"
    /\ arg.min_score = 100
    /\ Len(res) = 2
    /\ ScoreIs(res[1].score, 100)
    /\ res[1].run = <<1>>
    /\ used = {2}
    /\ Len(words) = 3
    /\ res[2] = NoMatch

\* ------------------------------------------------------------------------
\* Runs of merge_consecutive_word_rects on its own, and on its own result
\* ------------------------------------------------------------------------
\* A length of n points as a coordinate
Pt(n) == n * CoordDen

\* Rects 10 pt wide at three places of a line, 4 pt or 20 pt high, with the
\* top one or three coordinate units below the line
RectPool ==
    {Rect(Pt(x0), y0, Pt(x0 + 10), y0 + Pt(h)) : x0 \in {0, 11, 25}, y0 \in {1, 3}, h \in {4, 20}}

InitMerge ==
    /\ pc = "call"
    /\ fn = "merge_consecutive_word_rects"
    /\ arg \in SeqsUpTo(RectPool, MaxRects)
    /\ res = Idle
    /\ words = <<>>
    /\ findings = <<>>
    /\ used = {}
    /\ queue = <<>>
    /\ suggestions = <<>>
    /\ report = EmptyBag
    /\ page_calibrations = <<>>
    /\ measurements = <<>>

CallMerge ==
    /\ pc = "call"
    /\ fn = "merge_consecutive_word_rects"
    /\ res' = merge_consecutive_word_rects(arg)
    /\ pc' = "returned"
    /\ UNCHANGED <<words, findings, used, queue, suggestions, report, fn, arg, page_calibrations, measurements>>

\* The caller merges the list it got back
CallMergeAgain ==
    /\ pc = "returned"
    /\ fn = "merge_consecutive_word_rects"
    /\ arg' = res
    /\ res' = merge_consecutive_word_rects(res)
    /\ pc' = "remerged"
    /\ UNCHANGED <<words, findings, used, queue, suggestions, report, fn, page_calibrations, measurements>>

SpecMerge == InitMerge /\ [][CallMerge \/ CallMergeAgain]_vars

\* C7 (merging idempotence): merging a merged list returns the same rects in
\* the same order.
C7_MergeIdempotent == pc = "remerged" => res = arg

\* ------------------------------------------------------------------------
\* Exact rationals [num, den], den > 0, in lowest terms
\* ------------------------------------------------------------------------
RECURSIVE Gcd(_, _)
Gcd(a, b) == IF b = 0 THEN a ELSE Gcd(b, a % b)

Rat(n, d) ==
    LET g == Gcd(Abs(n), Abs(d))
        sgn == IF d < 0 THEN -1 ELSE 1
    IN  [num |-> sgn * (n \div g), den |-> sgn * (d \div g)]

RInt(n) == [num |-> n, den |-> 1]
\* Common factors are cancelled before multiplying, to keep the products small
RMul(a, b) ==
    LET g == Gcd(Abs(a.num), b.den)
        h == Gcd(Abs(b.num), a.den)
    IN  [num |-> (a.num \div g) * (b.num \div h), den |-> (a.den \div h) * (b.den \div g)]

RDiv(a, b) == RMul(a, Rat(b.den, b.num))

\* ------------------------------------------------------------------------
\* canvas_to_pdf_coords and pdf_to_canvas_coords, measurement_utils.py:10-93
\* ------------------------------------------------------------------------
\* A conversion to PDF space with the DPI scale of the other direction
canvas_to_pdf_coords_DpiScale(canvas_x, canvas_y, canvas_width, canvas_height, pdf_width, pdf_height, preview_dpi) ==
    LET dpi_scale == RDiv(preview_dpi, RInt(72))
        image_width == RMul(pdf_width, RDiv(preview_dpi, RInt(72)))
        image_height == RMul(pdf_height, RDiv(preview_dpi, RInt(72)))
    IN  <<RMul(RMul(canvas_x, RDiv(image_width, canvas_width)), dpi_scale),
          RMul(RMul(canvas_y, RDiv(image_height, canvas_height)), dpi_scale)>>

canvas_to_pdf_coords(canvas_x, canvas_y, canvas_width, canvas_height, pdf_width, pdf_height, preview_dpi) ==
    LET dpi_scale == RDiv(RInt(72), preview_dpi)                      \* :33
        image_width == RMul(pdf_width, RDiv(preview_dpi, RInt(72)))   \* :36
        image_height == RMul(pdf_height, RDiv(preview_dpi, RInt(72))) \* :37
        scale_x == RDiv(image_width, canvas_width)                    \* :40
        scale_y == RDiv(image_height, canvas_height)                  \* :41
        image_x == RMul(canvas_x, scale_x)                            \* :44
        image_y == RMul(canvas_y, scale_y)                            \* :45
    IN  <<RMul(image_x, dpi_scale), RMul(image_y, dpi_scale)>>        \* :48-51

pdf_to_canvas_coords(pdf_x, pdf_y, canvas_width, canvas_height, pdf_width, pdf_height, preview_dpi) ==
    LET dpi_scale == RDiv(preview_dpi, RInt(72))                      \* :76
        image_x == RMul(pdf_x, dpi_scale)                             \* :79
        image_y == RMul(pdf_y, dpi_scale)                             \* :80
        image_width == RMul(pdf_width, dpi_scale)                     \* :83
        image_height == RMul(pdf_height, dpi_scale)                   \* :84
        scale_x == RDiv(canvas_width, image_width)                    \* :87
        scale_y == RDiv(canvas_height, image_height)                  \* :88
    IN  <<RMul(image_x, scale_x), RMul(image_y, scale_y)>>            \* :90-93

\* A point goes through one function and the result through the other
Coordinates == {RInt(-5), RInt(0), Rat(701, 2)}
CanvasSizes == {RInt(700), RInt(905)}
PdfSizes == {RInt(612), Rat(1191, 2)}
PreviewDpis == {RInt(72), RInt(150)}

InitTransform ==
    /\ pc = "call"
    /\ fn = "transform"
    /\ \E x \in Coordinates, y \in Coordinates, cw \in CanvasSizes, ch \in CanvasSizes,
          pw \in PdfSizes, ph \in PdfSizes, dpi \in PreviewDpis, space \in {"canvas", "pdf"} :
           arg = [x |-> x, y |-> y, canvas_width |-> cw, canvas_height |-> ch,
                  pdf_width |-> pw, pdf_height |-> ph, preview_dpi |-> dpi, space |-> space]
    /\ res = <<>>
    /\ words = <<>>
    /\ findings = <<>>
    /\ used = {}
    /\ queue = <<>>
    /\ suggestions = <<>>
    /\ report = EmptyBag
    /\ page_calibrations = <<>>
    /\ measurements = <<>>

\* The point to convert: the input, or the result of the first conversion
Current == IF res = <<>> THEN <<arg.x, arg.y>> ELSE res[Len(res)]

CallCanvasToPdf ==
    /\ fn = "transform"
    /\ \/ pc = "call" /\ arg.space = "canvas"
       \/ pc = "converted" /\ arg.space = "pdf"
    /\ res' = Append(res, canvas_to_pdf_coords(Current[1], Current[2], arg.canvas_width,
                              arg.canvas_height, arg.pdf_width, arg.pdf_height, arg.preview_dpi))
    /\ pc' = IF pc = "call" THEN "converted" ELSE "restored"
    /\ UNCHANGED <<words, findings, used, queue, suggestions, report, fn, arg, page_calibrations, measurements>>

CallPdfToCanvas ==
    /\ fn = "transform"
    /\ \/ pc = "call" /\ arg.space = "pdf"
       \/ pc = "converted" /\ arg.space = "canvas"
    /\ res' = Append(res, pdf_to_canvas_coords(Current[1], Current[2], arg.canvas_width,
                              arg.canvas_height, arg.pdf_width, arg.pdf_height, arg.preview_dpi))
    /\ pc' = IF pc = "call" THEN "converted" ELSE "restored"
    /\ UNCHANGED <<words, findings, used, queue, suggestions, report, fn, arg, page_calibrations, measurements>>

SpecTransform == InitTransform /\ [][CallCanvasToPdf \/ CallPdfToCanvas]_vars

\* C8 (round-trip transform): a point taken through one function and back
\* through the other is the point itself, in both directions.
C8_RoundTrip ==
    (fn = "transform" /\ pc = "restored") => res[2] = <<arg.x, arg.y>>

\* A canvas point that the first conversion moves, at a DPI other than 72
C8_Witness ==
    /\ fn = "transform"
    /\ pc = "restored"
    /\ arg.space = "canvas"
    /\ arg.preview_dpi = RInt(150)
    /\ arg.x = Rat(701, 2)
    /\ res[1] # <<arg.x, arg.y>>
    /\ res[1][1].den # 1

\* ------------------------------------------------------------------------
\* MeasurementProcessor.calculate_distance / calculate_perimeter /
\* calculate_area, measurement_processor.py:113-171
\* ------------------------------------------------------------------------
\* A length is a sum of square roots, kept exact as a bag: the square-free
\* radicand b carries the coefficient a of a * sqrt(b); 0 is the empty bag.
\* The largest a with a * a dividing n, found by dividing out the squares
\* k * k from k upwards
RECURSIVE SquarePart(_, _)
SquarePart(n, k) ==
    IF k * k > n THEN 1
    ELSE IF n % (k * k) = 0 THEN k * SquarePart(n \div (k * k), k)
    ELSE SquarePart(n, k + 1)

Sqrt(n) ==
    IF n = 0 THEN EmptyBag
    ELSE LET a == SquarePart(n, 2)
         IN  (n \div (a * a)) :> a

calculate_distance(p1, p2) ==
    Sqrt((p2[1] - p1[1]) * (p2[1] - p1[1]) + (p2[2] - p1[2]) * (p2[2] - p1[2]))

\* The loop of calculate_perimeter from index i (0-based, as in the code)
RECURSIVE PerimeterLoop(_, _, _)
PerimeterLoop(i, perimeter, points) ==
    IF i >= Len(points) THEN perimeter
    ELSE LET p1 == points[i + 1]
             p2 == points[((i + 1) % Len(points)) + 1]
         IN  PerimeterLoop(i + 1, perimeter (+) calculate_distance(p1, p2), points)

\* A perimeter without the edge from the last point back to the first
calculate_perimeter_Open(points) ==
    IF Len(points) < 2 THEN EmptyBag
    ELSE PerimeterLoop(0, EmptyBag, points) (-) calculate_distance(points[Len(points)], points[1])

calculate_perimeter(points) ==
    IF Len(points) < 2 THEN EmptyBag
    ELSE PerimeterLoop(0, EmptyBag, points)

\* The loop of calculate_area from index i (0-based, as in the code)
RECURSIVE AreaLoop(_, _, _)
AreaLoop(i, area, points) ==
    IF i >= Len(points) THEN area
    ELSE LET j == (i + 1) % Len(points)
         IN  AreaLoop(i + 1,
                      area + points[i + 1][1] * points[j + 1][2]
                           - points[j + 1][1] * points[i + 1][2],
                      points)

\* An area that keeps the sign of the Shoelace sum
calculate_area_Signed(points) ==
    IF Len(points) < 3 THEN RInt(0)
    ELSE Rat(AreaLoop(0, 0, points), 2)

calculate_area(points) ==
    IF Len(points) < 3 THEN RInt(0)
    ELSE Rat(Abs(AreaLoop(0, 0, points)), 2)

Square == <<(<<0, 0>>), (<<72, 0>>), (<<72, 72>>), (<<0, 72>>)>>
PointPool == {Square[i] : i \in 1..4} \cup {<<36, 0>>}

InitMeasure ==
    /\ pc = "call"
    /\ fn \in {"calculate_perimeter", "calculate_area"}
    /\ arg \in SeqsUpTo(PointPool, MaxPoints)
    /\ res = <<>>
    /\ words = <<>>
    /\ findings = <<>>
    /\ used = {}
    /\ queue = <<>>
    /\ suggestions = <<>>
    /\ report = EmptyBag
    /\ page_calibrations = <<>>
    /\ measurements = <<>>

CallPerimeter ==
    /\ pc = "call"
    /\ fn = "calculate_perimeter"
    /\ res' = calculate_perimeter(arg)
    /\ pc' = "returned"
    /\ UNCHANGED <<words, findings, used, queue, suggestions, report, fn, arg, page_calibrations, measurements>>

CallArea ==
    /\ pc = "call"
    /\ fn = "calculate_area"
    /\ res' = calculate_area(arg)
    /\ pc' = "returned"
    /\ UNCHANGED <<words, findings, used, queue, suggestions, report, fn, arg, page_calibrations, measurements>>

SpecMeasure == InitMeasure /\ [][CallPerimeter \/ CallArea]_vars

\* The length of the open path through the points, one edge after the other
RECURSIVE PathLength(_)
PathLength(points) ==
    IF Len(points) < 2 THEN EmptyBag
    ELSE calculate_distance(points[1], points[2]) (+) PathLength(Tail(points))

\* C9 (perimeter): the perimeter is the sum of the distances between
\* consecutive points plus the closing edge from the last point to the first
\* for two or more points (twice the distance for exactly two), 0 for fewer
\* than two points, and 288 for the 72-point square.
C9_Perimeter ==
    (fn = "calculate_perimeter" /\ pc = "returned") =>
        /\ Len(arg) < 2 => res = EmptyBag
        /\ Len(arg) >= 2 =>
               res = PathLength(arg) (+) calculate_distance(arg[Len(arg)], arg[1])
        /\ Len(arg) = 2 =>
               res = calculate_distance(arg[1], arg[2]) (+) calculate_distance(arg[1], arg[2])
        /\ arg = Square => res = (1 :> 288)

\* The perimeter of a triangle with a diagonal closing edge has been computed
C9_Witness ==
    /\ fn = "calculate_perimeter"
    /\ pc = "returned"
    /\ arg = <<(<<0, 0>>), (<<72, 0>>), (<<72, 72>>)>>
    /\ res = (1 :> 144) @@ (2 :> 72)

Shoelace(points) ==
    LET n == Len(points)
        next(i) == (i % n) + 1
    IN  SumSeq([i \in 1..n |-> points[i][1] * points[next(i)][2]
                               - points[next(i)][1] * points[i][2]])

Collinear(points) ==
    \A i, j, k \in 1..Len(points) :
        (points[j][1] - points[i][1]) * (points[k][2] - points[i][2])
            = (points[k][1] - points[i][1]) * (points[j][2] - points[i][2])

Reverse(s) == [i \in 1..Len(s) |-> s[Len(s) + 1 - i]]

\* C10 (area): the area is half the absolute value of the Shoelace sum, 0
\* for fewer than three points and for collinear or coincident points, never
\* negative, and 5184 for the 72-point square in either winding order.
C10_Area ==
    (fn = "calculate_area" /\ pc = "returned") =>
        /\ Len(arg) < 3 => res = RInt(0)
        /\ Len(arg) >= 3 => res = Rat(Abs(Shoelace(arg)), 2)
        /\ Collinear(arg) => res = RInt(0)
        /\ res.num >= 0 /\ res.den > 0
        /\ arg \in {Square, Reverse(Square)} => res = RInt(5184)

\* The area of the square given clockwise, whose Shoelace sum is negative
C10_Witness ==
    /\ fn = "calculate_area"
    /\ pc = "returned"
    /\ arg = Reverse(Square)
    /\ Shoelace(arg) < 0
    /\ res = RInt(5184)

\* ------------------------------------------------------------------------
\* ScaleCalibration, MeasurementResult and MeasurementProcessor,
\* measurement_processor.py:14-306
\* ------------------------------------------------------------------------
\* An enum member is its name; Enum.value is the string the member carries
MeasurementTypeValue == [DISTANCE |-> "distance", PERIMETER |-> "perimeter", AREA |-> "area"]
UnitValue ==
    [POINTS |-> "pt", INCHES |-> "in", CENTIMETERS |-> "cm", MILLIMETERS |-> "mm",
     FEET |-> "ft", METERS |-> "m", PIXELS |-> "px"]

\* The outcome of a call: the value returned, or the exception raised
Return(v) == [raised |-> "", value |-> v]
Raise(e) == [raised |-> e, value |-> <<>>]
None == <<>>

ScaleCalibration(pdf_distance, real_distance, unit) ==
    [pdf_distance |-> pdf_distance, real_distance |-> real_distance, unit |-> unit]

\* measurement_processor.py:35-37 and 97
default_calibration == ScaleCalibration(72, 1, "INCHES")

\* A float division by zero raises ZeroDivisionError
get_conversion_factor(self) ==
    IF self.pdf_distance = 0 THEN Raise("ZeroDivisionError")
    ELSE Return(Rat(self.real_distance, self.pdf_distance))

\* dict.get(page_num, default)
get_calibration(calibrations, page_num) ==
    IF page_num \in DOMAIN calibrations THEN calibrations[page_num] ELSE default_calibration

MeasurementResult(measurement_type, value, real_value, unit, points, label, page_num, properties) ==
    [measurement_type |-> measurement_type, value |-> value, real_value |-> real_value,
     unit |-> unit, points |-> points, label |-> label, page_num |-> page_num,
     properties |-> properties]

\* A length times a rational: each a * sqrt(b) becomes (a * factor) * sqrt(b)
ScaleLength(length, factor) ==
    IF factor.num = 0 THEN EmptyBag
    ELSE [b \in DOMAIN length |-> RMul(RInt(length[b]), factor)]

\* math.degrees(math.atan2(dy, dx)), kept exact as the direction (dx, dy) in
\* lowest terms: two segments have the same angle iff they have the same
\* direction
calculate_angle(p1, p2) ==
    LET dx == p2[1] - p1[1]
        dy == p2[2] - p1[2]
        g == Gcd(Abs(dx), Abs(dy))
    IN  IF g = 0 THEN <<0, 0>> ELSE <<dx \div g, dy \div g>>

measure_distance(calibrations, p1, p2, page_num, label) ==
    LET pdf_distance == calculate_distance(p1, p2)
        calibration == get_calibration(calibrations, page_num)
        factor == get_conversion_factor(calibration)
    IN  IF factor.raised # "" THEN factor
        ELSE Return(MeasurementResult("DISTANCE", pdf_distance,
                        ScaleLength(pdf_distance, factor.value), calibration.unit,
                        <<p1, p2>>, label, page_num, [angle |-> calculate_angle(p1, p2)]))

measure_perimeter(calibrations, points, page_num, label) ==
    LET pdf_perimeter == calculate_perimeter(points)
        calibration == get_calibration(calibrations, page_num)
        factor == get_conversion_factor(calibration)
    IN  IF factor.raised # "" THEN factor
        ELSE Return(MeasurementResult("PERIMETER", pdf_perimeter,
                        ScaleLength(pdf_perimeter, factor.value), calibration.unit,
                        points, label, page_num, [num_sides |-> Len(points)]))

\* An area scaled by the factor itself instead of its square
measure_area_Linear(calibrations, points, page_num, label) ==
    LET calibration == get_calibration(calibrations, page_num)
        factor == get_conversion_factor(calibration)
    IN  IF factor.raised # "" THEN factor
        ELSE Return(MeasurementResult("AREA", calculate_area(points),
                        RMul(calculate_area(points), factor.value), calibration.unit,
                        points, label, page_num,
                        [perimeter_pdf |-> calculate_perimeter(points),
                         perimeter_real |-> ScaleLength(calculate_perimeter(points), factor.value),
                         num_sides |-> Len(points)]))

measure_area(calibrations, points, page_num, label) ==
    LET pdf_area == calculate_area(points)
        calibration == get_calibration(calibrations, page_num)
        conversion_factor == get_conversion_factor(calibration)
    IN  IF conversion_factor.raised # "" THEN conversion_factor
        ELSE LET real_area == RMul(pdf_area, RMul(conversion_factor.value, conversion_factor.value))
                 pdf_perimeter == calculate_perimeter(points)
                 real_perimeter == ScaleLength(pdf_perimeter, conversion_factor.value)
             IN  Return(MeasurementResult("AREA", pdf_area, real_area, calibration.unit,
                            points, label, page_num,
                            [perimeter_pdf |-> pdf_perimeter,
                             perimeter_real |-> real_perimeter,
                             num_sides |-> Len(points)]))

\* A test of the page number's truth value instead of "is not None"
clear_measurements_Truthy(stored, page_num) ==
    IF page_num # None /\ page_num[1] # 0
    THEN SelectSeq(stored, LAMBDA m : m.page_num # page_num[1])
    ELSE <<>>

\* Optional[int]: None is the empty tuple, a page number p is <<p>>
clear_measurements(stored, page_num) ==
    IF page_num # None
    THEN SelectSeq(stored, LAMBDA m : m.page_num # page_num[1])
    ELSE <<>>

\* ------------------------------------------------------------------------
\* A MeasurementProcessor in use: measurements are taken, directly and
\* through the Finalize Measurement button (app.py:889-927), and cleared
\* ------------------------------------------------------------------------
Pages == {0, 1}
PointLists == {SubSeq(Square, 1, n) : n \in {1, 2, 4}}

\* The page_calibrations a processor is constructed with
ConstructedCalibrations ==
    { <<>>,
      (0 :> ScaleCalibration(36, 2, "CENTIMETERS")) @@ (1 :> ScaleCalibration(0, 1, "INCHES")) }

Resolver == <<words, findings, used, queue, suggestions, report>>

\* self, as a method receives it
Self == [page_calibrations |-> page_calibrations, measurements |-> measurements]

InitProcessor ==
    /\ pc = "ready"
    /\ fn = "__init__"
    /\ arg = <<>>
    /\ res = Return(None)
    /\ page_calibrations \in ConstructedCalibrations
    /\ measurements = <<>>
    /\ words = <<>>
    /\ findings = <<>>
    /\ used = {}
    /\ queue = <<>>
    /\ suggestions = <<>>
    /\ report = EmptyBag

\* measurement_processor.py:207, 242, 286: the result is appended and
\* returned; an exception leaves the processor as it was
Measured(name, input, outcome) ==
    /\ fn' = name
    /\ arg' = input
    /\ res' = outcome
    /\ measurements' = IF outcome.raised = "" THEN Append(measurements, outcome.value)
                       ELSE measurements

MeasureDistance ==
    /\ pc = "ready"
    /\ Len(measurements) < MaxMeasurements
    /\ \E page_num \in Pages :
           Measured("measure_distance",
                    [self |-> Self, points |-> <<Square[1], Square[3]>>, page_num |-> page_num],
                    measure_distance(page_calibrations, Square[1], Square[3], page_num, <<>>))
    /\ UNCHANGED <<pc, page_calibrations>>
    /\ UNCHANGED Resolver

MeasurePerimeter ==
    /\ pc = "ready"
    /\ Len(measurements) < MaxMeasurements
    /\ \E points \in PointLists, page_num \in Pages :
           Measured("measure_perimeter",
                    [self |-> Self, points |-> points, page_num |-> page_num],
                    measure_perimeter(page_calibrations, points, page_num, <<>>))
    /\ UNCHANGED <<pc, page_calibrations>>
    /\ UNCHANGED Resolver

MeasureArea ==
    /\ pc = "ready"
    /\ Len(measurements) < MaxMeasurements
    /\ \E points \in PointLists, page_num \in Pages :
           Measured("measure_area",
                    [self |-> Self, points |-> points, page_num |-> page_num],
                    measure_area(page_calibrations, points, page_num, <<>>))
    /\ UNCHANGED <<pc, page_calibrations>>
    /\ UNCHANGED Resolver

ClearMeasurements ==
    /\ pc = "ready"
    /\ \E page_num \in {None} \cup {<<p>> : p \in Pages} :
           /\ fn' = "clear_measurements"
           /\ arg' = [self |-> Self, page_num |-> page_num]
           /\ res' = Return(None)
           /\ measurements' = clear_measurements(measurements, page_num)
    /\ UNCHANGED <<pc, page_calibrations>>
    /\ UNCHANGED Resolver

\* app.py:889-927: what the Finalize Measurement button does with the points
\* drawn: the outcome is the measurement made (or the exception caught) and
\* the message shown
Finalize(measurement_type, points, page_index) ==
    LET shown(outcome, message) == [outcome |-> outcome, message |-> message]
        made(outcome) == shown(outcome, IF outcome.raised = "" THEN "success" ELSE "error")
    IN  IF points = <<>> THEN shown(Return(None), "")
        ELSE IF measurement_type = "distance" /\ Len(points) >= 2
             THEN made(measure_distance(page_calibrations, points[1], points[2], page_index, <<>>))
        ELSE IF measurement_type = "perimeter" /\ Len(points) >= 2
             THEN made(measure_perimeter(page_calibrations, points, page_index, <<>>))
        ELSE IF measurement_type = "area" /\ Len(points) >= 3
             THEN made(measure_area(page_calibrations, points, page_index, <<>>))
        ELSE shown(Return(None), "warning")

Finalized(input, done) ==
    /\ fn' = "finalize_measurement"
    /\ arg' = input
    /\ res' = [raised |-> done.outcome.raised, value |-> done.outcome.value,
               message |-> done.message]
    /\ measurements' = IF done.message = "success"
                       THEN Append(measurements, done.outcome.value)
                       ELSE measurements

FinalizeMeasurement ==
    /\ pc = "ready"
    /\ Len(measurements) + 1 < MaxMeasurements       \* the button, one result below the cap
    /\ \E measurement_type \in {"distance", "perimeter", "area"},
          points \in PointLists \cup {<<>>}, page_index \in Pages :
           Finalized([self |-> Self, measurement_type |-> measurement_type,
                      points |-> points, page_num |-> page_index],
                     Finalize(measurement_type, points, page_index))
    /\ UNCHANGED <<pc, page_calibrations>>
    /\ UNCHANGED Resolver

NextProcessor ==
    MeasureDistance \/ MeasurePerimeter \/ MeasureArea \/ ClearMeasurements \/ FinalizeMeasurement

SpecProcessor == InitProcessor /\ [][NextProcessor]_vars

\* real = value * real_distance / pdf_distance, coefficient by coefficient
IsScaledLength(value, real, calibration) ==
    /\ calibration.real_distance # 0 => DOMAIN real = DOMAIN value
    /\ \A b \in DOMAIN real :
           real[b].num * calibration.pdf_distance
               = value[b] * calibration.real_distance * real[b].den

\* real = value * (real_distance / pdf_distance)^2
IsScaledArea(value, real, calibration) ==
    real.num * value.den * calibration.pdf_distance * calibration.pdf_distance
        = value.num * real.den * calibration.real_distance * calibration.real_distance

\* C11 (calibration scaling): the real value of every stored measurement is
\* its document value times real_distance / pdf_distance of the page's
\* calibration for a distance or a perimeter, and times the square of that
\* factor for an area, whose perimeter_real is scaled like a perimeter; under
\* the calibration 72 pt = 1 in the 72-point square has real perimeter 4,
\* real area 1 and perimeter_real 4.
C11_CalibrationScaling ==
    fn \in {"measure_distance", "measure_perimeter", "measure_area", "finalize_measurement"} =>
        \A k \in 1..Len(measurements) :
            LET m == measurements[k]
                calibration == get_calibration(page_calibrations, m.page_num)
                unit_square == calibration = ScaleCalibration(72, 1, "INCHES") /\ m.points = Square
            IN  /\ calibration.pdf_distance # 0
                /\ m.measurement_type \in {"DISTANCE", "PERIMETER"} =>
                       IsScaledLength(m.value, m.real_value, calibration)
                /\ m.measurement_type = "PERIMETER" /\ unit_square =>
                       m.real_value = (1 :> RInt(4))
                /\ m.measurement_type = "AREA" =>
                       /\ IsScaledArea(m.value, m.real_value, calibration)
                       /\ IsScaledLength(m.properties.perimeter_pdf,
                                         m.properties.perimeter_real, calibration)
                       /\ unit_square =>
                              /\ m.real_value = RInt(1)
                              /\ m.properties.perimeter_real = (1 :> RInt(4))

\* The area of the 72-point square has just been measured on a page with
\* the default calibration
C11_Witness ==
    /\ fn = "measure_area"
    /\ res.raised = ""
    /\ res.value.points = Square
    /\ res.value.value = RInt(5184)
    /\ res.value.real_value = RInt(1)
    /\ res.value.properties.perimeter_real = (1 :> RInt(4))
    /\ measurements[Len(measurements)] = res.value

\* ------------------------------------------------------------------------
\* set_calibration, get_calibration and apply_calibration_to_all_pages,
\* measurement_processor.py:100-111
\* ------------------------------------------------------------------------
\* dict[page_num] = calibration
set_calibration(calibrations, page_num, calibration) ==
    [p \in DOMAIN calibrations \cup {page_num} |->
        IF p = page_num THEN calibration ELSE calibrations[p]]

\* for i in range(num_pages): self.page_calibrations[i] = calibration
RECURSIVE ApplyLoop(_, _, _, _)
ApplyLoop(i, num_pages, calibrations, calibration) ==
    IF i >= num_pages THEN calibrations
    ELSE ApplyLoop(i + 1, num_pages, set_calibration(calibrations, i, calibration), calibration)

\* A loop that runs over range(num_pages + 1)
apply_calibration_to_all_pages_Inclusive(calibrations, calibration, num_pages) ==
    ApplyLoop(0, num_pages + 1, calibrations, calibration)

apply_calibration_to_all_pages(calibrations, calibration, num_pages) ==
    ApplyLoop(0, num_pages, calibrations, calibration)

PageCounts == {0, 1, 2}
Calibrations == {ScaleCalibration(36, 2, "CENTIMETERS"), ScaleCalibration(0, 1, "INCHES")}

\* A processor that holds no measurement, or one distance
StoredMeasurements ==
    {<<>>, <<measure_distance(<<>>, Square[1], Square[3], 1, <<>>).value>>}

\* arg.history: the set_calibration and apply_calibration_to_all_pages calls
\* made so far, oldest first
InitCalibration ==
    /\ pc = "ready"
    /\ fn = "__init__"
    /\ arg = [self |-> [page_calibrations |-> <<>>, measurements |-> <<>>], history |-> <<>>]
    /\ res = Return(None)
    /\ page_calibrations = <<>>
    /\ measurements \in StoredMeasurements
    /\ words = <<>>
    /\ findings = <<>>
    /\ used = {}
    /\ queue = <<>>
    /\ suggestions = <<>>
    /\ report = EmptyBag

SetCalibration ==
    /\ pc = "ready"
    /\ Len(arg.history) < MaxCalls
    /\ \E page_num \in PageCounts, calibration \in Calibrations :
           LET call == [call |-> "set_calibration", page_num |-> page_num,
                        calibration |-> calibration]
           IN  /\ fn' = call.call
               /\ arg' = [self |-> Self, history |-> Append(arg.history, call)]
               /\ page_calibrations' = set_calibration(page_calibrations, page_num, calibration)
    /\ res' = Return(None)
    /\ UNCHANGED <<pc, measurements>>
    /\ UNCHANGED Resolver

ApplyCalibrationToAllPages ==
    /\ pc = "ready"
    /\ Len(arg.history) < MaxCalls
    /\ \E calibration \in Calibrations, num_pages \in PageCounts :
           LET call == [call |-> "apply_calibration_to_all_pages", num_pages |-> num_pages,
                        calibration |-> calibration]
           IN  /\ fn' = call.call
               /\ arg' = [self |-> Self, history |-> Append(arg.history, call)]
               /\ page_calibrations' =
                      apply_calibration_to_all_pages(page_calibrations, calibration, num_pages)
    /\ res' = Return(None)
    /\ UNCHANGED <<pc, measurements>>
    /\ UNCHANGED Resolver

GetCalibration ==
    /\ pc = "ready"
    /\ \E page_num \in PageCounts :
           /\ fn' = "get_calibration"
           /\ arg' = [self |-> Self, history |-> arg.history, page_num |-> page_num]
           /\ res' = Return(get_calibration(page_calibrations, page_num))
    /\ UNCHANGED <<pc, page_calibrations, measurements>>
    /\ UNCHANGED Resolver

SpecCalibration ==
    InitCalibration /\ [][SetCalibration \/ ApplyCalibrationToAllPages \/ GetCalibration]_vars

\* Whether a call of the history set page p, and the calibration most
\* recently set for p by the first n calls (the default if there is none)
SetsPage(call, p) ==
    IF call.call = "set_calibration" THEN call.page_num = p ELSE p < call.num_pages

RECURSIVE MostRecent(_, _, _)
MostRecent(history, n, p) ==
    IF n = 0 THEN ScaleCalibration(72, 1, "INCHES")
    ELSE IF SetsPage(history[n], p) THEN history[n].calibration
    ELSE MostRecent(history, n - 1, p)

\* C12 (per-page calibration with fallback): get_calibration(p) is the
\* calibration most recently set for p by set_calibration or
\* apply_calibration_to_all_pages, or 72 pt = 1 in if there is none;
\* apply_calibration_to_all_pages(c, n) sets exactly the pages 0..n-1 to c and
\* leaves every page >= n and the stored measurements as they were.
C12_PerPageCalibration ==
    fn \in {"__init__", "set_calibration", "apply_calibration_to_all_pages", "get_calibration"} =>
        /\ \A p \in PageCounts :
               get_calibration(page_calibrations, p) = MostRecent(arg.history, Len(arg.history), p)
        /\ fn = "get_calibration" =>
               res.value = MostRecent(arg.history, Len(arg.history), arg.page_num)
        /\ fn = "apply_calibration_to_all_pages" =>
               LET call == arg.history[Len(arg.history)]
                   before == arg.self.page_calibrations
               IN  /\ DOMAIN page_calibrations = DOMAIN before \cup 0..(call.num_pages - 1)
                   /\ \A p \in DOMAIN page_calibrations :
                          page_calibrations[p] = IF p < call.num_pages THEN call.calibration
                                                 ELSE before[p]
                   /\ measurements = arg.self.measurements

\* One calibration was applied to page 0 only, while page 1 held another
\* and a measurement was stored
C12_Witness ==
    /\ fn = "apply_calibration_to_all_pages"
    /\ arg.history[Len(arg.history)].num_pages = 1
    /\ 1 \in DOMAIN page_calibrations
    /\ page_calibrations[1] # page_calibrations[0]
    /\ page_calibrations[0] # get_calibration(arg.self.page_calibrations, 0)
    /\ get_calibration(page_calibrations, 2) = default_calibration
    /\ measurements # <<>>

\* after is before without the elements at the indices in removed, the rest
\* in their order
IsRemainder(before, after, removed) ==
    LET kept == (1..Len(before)) \ removed
    IN  /\ Len(after) = Cardinality(kept)
        /\ \E f \in [1..Len(after) -> kept] :
               /\ \A i, j \in 1..Len(after) : i < j => f[i] < f[j]
               /\ \A i \in 1..Len(after) : after[i] = before[f[i]]

\* C13 (clear granularity): clear_measurements(p) with a page number p, 0
\* included, removes exactly the stored measurements of page p and keeps
\* the others in their order; clear_measurements() removes them all;
\* neither changes a page calibration.
C13_ClearGranularity ==
    fn = "clear_measurements" =>
        LET before == arg.self.measurements
        IN  /\ arg.page_num = None => measurements = <<>>
            /\ arg.page_num # None =>
                   IsRemainder(before, measurements,
                               {k \in 1..Len(before) : before[k].page_num = arg.page_num[1]})
            /\ page_calibrations = arg.self.page_calibrations

\* Page 0 was cleared while it held one of three measurements; the two
\* others, which differ, were kept
C13_Witness ==
    /\ fn = "clear_measurements"
    /\ arg.page_num = <<0>>
    /\ Len(arg.self.measurements) = 3
    /\ arg.self.measurements[2].page_num = 0
    /\ Len(measurements) = 2
    /\ measurements[1] # measurements[2]

\* ------------------------------------------------------------------------
\* create_detailed_suggestions with findings that cannot be placed: a text
\* the document does not hold, a text whose words are taken, a source page
\* without words
\* ------------------------------------------------------------------------
\* A page source for the page after the last page of the document
EmptyPageSource(W) ==
    Source("page", W[Len(W)].page_number + 1, [offset |-> 0, length |-> 0])

InitFailures ==
    /\ pc = "start"
    /\ words \in Documents({Bennett}, MaxWords)
    /\ findings \in SeqsUpTo([text : {Bennett, Zoe},
                              source : PageSources(words) \cup {EmptyPageSource(words)}],
                             FailureFindings)
    /\ used = {}
    /\ queue = <<>>
    /\ suggestions = <<>>
    /\ report = EmptyBag
    /\ page_calibrations = <<>>
    /\ measurements = <<>>
    /\ fn = "none"
    /\ arg = Idle
    /\ res = Idle

SpecFailures == InitFailures /\ [][Next]_vars

\* utils.py:144-231 as a function of the words and the findings: the loop
\* over the findings in processing order, then the final sort
RECURSIVE ResolveFrom(_, _, _, _, _)
ResolveFrom(order, F, W, U, ss) ==
    IF order = <<>> THEN ss
    ELSE LET item == F[Head(order)]
             match == find_best_text_matches_batch(<<item.text>>, WordsToSearch(item, W),
                                                   DefaultMinScore, W, U)[1]
         IN  IF ScoreGE(match.score, AcceptScore)
             THEN ResolveFrom(Tail(order), F, W,
                              U \cup {match.run[k] : k \in 1..Len(match.run)},
                              Emit(ss, item, Head(order), match.run,
                                   IndividualWordRects(match.run, W)))
             ELSE ResolveFrom(Tail(order), F, W, U, ss)

create_detailed_suggestions(W, F) ==
    SortSuggestions(ResolveFrom(ProcessingOrder(F), F, W, {}, <<>>))

\* The findings with a source that got no suggestion, and the others
Failing == {k \in 1..Len(findings) :
               /\ findings[k].source.kind # "none"
               /\ \A a \in 1..Len(suggestions) : suggestions[a].finding # k}

\* The findings outside S, as indices in input order, and the suggestions of
\* the call without the findings in S
Others(S) == SelectSeq([k \in 1..Len(findings) |-> k], LAMBDA k : k \notin S)

Without(S) ==
    create_detailed_suggestions(words, [k \in 1..Len(Others(S)) |-> findings[Others(S)[k]]])

\* The call placed the findings outside S as the call without S does
SamePlacements(S, expected) ==
    /\ Len(suggestions) = Len(expected)
    /\ \A a \in 1..Len(suggestions) :
           /\ suggestions[a].text = expected[a].text
           /\ suggestions[a].page_num = expected[a].page_num
           /\ suggestions[a].rects = expected[a].rects
           /\ suggestions[a].matched = expected[a].matched
           /\ suggestions[a].finding = Others(S)[expected[a].finding]

\* No run of the words a finding is searched in reaches the accepted score
CannotMatch(item) ==
    LET words_to_search == WordsToSearch(item, words)
    IN  /\ item.source.kind # "none"
        /\ \A i, j \in 1..Len(words_to_search) :
               i <= j => ~ScoreGE(CandidateScore(Slice(words_to_search, i, j),
                                                 NormTarget(item.text), words),
                                  AcceptScore)

canvas_to_pdf_coords_outcome(canvas_x, canvas_y, canvas_width, canvas_height, pdf_width, pdf_height, preview_dpi) ==
    IF preview_dpi.num = 0 \/ canvas_width.num = 0 \/ canvas_height.num = 0
    THEN Raise("ZeroDivisionError")
    ELSE Return(canvas_to_pdf_coords(canvas_x, canvas_y, canvas_width, canvas_height,
                                     pdf_width, pdf_height, preview_dpi))

\* measurement_utils.py:87-88 divides by the image size, pdf size * dpi / 72
pdf_to_canvas_coords_outcome(pdf_x, pdf_y, canvas_width, canvas_height, pdf_width, pdf_height, preview_dpi) ==
    IF preview_dpi.num = 0 \/ pdf_width.num = 0 \/ pdf_height.num = 0
    THEN Raise("ZeroDivisionError")
    ELSE Return(pdf_to_canvas_coords(pdf_x, pdf_y, canvas_width, canvas_height,
                                     pdf_width, pdf_height, preview_dpi))

\* Each dimension and the DPI are negative, zero or positive, and not all
\* are positive
Degenerate(positive) == {RInt(-positive), RInt(0), RInt(positive)}

IsDegenerate(call) ==
    \E name \in {"canvas_width", "canvas_height", "pdf_width", "pdf_height", "preview_dpi"} :
        call[name].num <= 0

InitDegenerate ==
    /\ pc = "call"
    /\ fn \in {"canvas_to_pdf_coords", "pdf_to_canvas_coords"}
    /\ \E cw \in Degenerate(700), ch \in Degenerate(905), pw \in Degenerate(612),
          ph \in Degenerate(792), dpi \in Degenerate(150) :
           arg = [x |-> RInt(350), y |-> RInt(10), canvas_width |-> cw, canvas_height |-> ch,
                  pdf_width |-> pw, pdf_height |-> ph, preview_dpi |-> dpi]
    /\ IsDegenerate(arg)
    /\ res = <<>>
    /\ words = <<>>
    /\ findings = <<>>
    /\ used = {}
    /\ queue = <<>>
    /\ suggestions = <<>>
    /\ report = EmptyBag
    /\ page_calibrations = <<>>
    /\ measurements = <<>>

CallCanvasToPdfDegenerate ==
    /\ pc = "call"
    /\ fn = "canvas_to_pdf_coords"
    /\ res' = canvas_to_pdf_coords_outcome(arg.x, arg.y, arg.canvas_width, arg.canvas_height,
                                           arg.pdf_width, arg.pdf_height, arg.preview_dpi)
    /\ pc' = "returned"
    /\ UNCHANGED <<fn, arg, page_calibrations, measurements>>
    /\ UNCHANGED Resolver

CallPdfToCanvasDegenerate ==
    /\ pc = "call"
    /\ fn = "pdf_to_canvas_coords"
    /\ res' = pdf_to_canvas_coords_outcome(arg.x, arg.y, arg.canvas_width, arg.canvas_height,
                                           arg.pdf_width, arg.pdf_height, arg.preview_dpi)
    /\ pc' = "returned"
    /\ UNCHANGED <<fn, arg, page_calibrations, measurements>>
    /\ UNCHANGED Resolver

SpecDegenerate ==
    InitDegenerate /\ [][CallCanvasToPdfDegenerate \/ CallPdfToCanvasDegenerate]_vars

\* C15 (degenerate transform inputs fail fast): a call of either function
\* with a canvas size, a PDF size or a DPI that is not positive raises an
\* error and returns no coordinate pair.
C15_DegenerateFailFast ==
    (fn \in {"canvas_to_pdf_coords", "pdf_to_canvas_coords"} /\ pc = "returned"
        /\ IsDegenerate(arg))
    => res.raised # ""

\* ------------------------------------------------------------------------
\* create_detailed_suggestions over words whose polygon is missing, has
\* three points, or collapses to a point or to a horizontal line
\* ------------------------------------------------------------------------
\* word_obj.polygon is None or empty: the empty sequence
MissingPolygon == <<>>

PolygonShapes(polygon) ==
    { polygon,
      MissingPolygon,
      SubSeq(polygon, 1, 6),
      [k \in 1..8 |-> IF k % 2 = 1 THEN polygon[1] ELSE polygon[2]],
      [k \in 1..8 |-> IF k % 2 = 1 THEN polygon[k] ELSE polygon[2]] }

WithPolygons(W) ==
    {[k \in 1..Len(W) |-> [W[k] EXCEPT !.polygon = shapes[k]]] :
        shapes \in {f \in [1..Len(W) -> UNION {PolygonShapes(W[k].polygon) : k \in 1..Len(W)}] :
                       \A k \in 1..Len(W) : f[k] \in PolygonShapes(W[k].polygon)}}

InitPolygons ==
    /\ pc = "start"
    /\ \E W \in Documents({Laura, Bennett}, LineWords) : words \in WithPolygons(W)
    /\ findings \in FindingLists(words, {Bennett, LauraBennett}, {"page"}, MaxFindings)
    /\ used = {}
    /\ queue = <<>>
    /\ suggestions = <<>>
    /\ report = EmptyBag
    /\ page_calibrations = <<>>
    /\ measurements = <<>>
    /\ fn = "none"
    /\ arg = Idle
    /\ res = Idle

SpecPolygons == InitPolygons /\ [][Next]_vars

\* A polygon that is missing or has fewer than four points
Malformed(polygon) == Len(polygon) < 8

\* C16 (malformed polygon fails fast): a call in which a matched word has a
\* missing polygon or one of fewer than four points does not end normally:
\* neither with a suggestion whose rectangles leave that word out, nor with
\* the finding dropped.
C16_MalformedPolygonFailsFast ==
    pc = "done" => \A k \in used : ~Malformed(words[k].polygon)

\* C18 (no empty rectangle is emitted): every rectangle of every returned
\* suggestion has x0 < x1 and y0 < y1, also when a matched word's polygon
\* collapses to a point or a line.
C18_NoEmptyRect ==
    pc = "done" =>
        \A a \in 1..Len(suggestions) : \A k \in 1..Len(suggestions[a].rects) :
            /\ suggestions[a].rects[k].x0 < suggestions[a].rects[k].x1
            /\ suggestions[a].rects[k].y0 < suggestions[a].rects[k].y1

\* C17 (insufficient points are rejected): a perimeter requested with fewer
\* than two points, or an area with fewer than three, is reported as a
\* failure and leaves the stored measurements as they were, both through
\* measure_perimeter / measure_area and through Finalize Measurement.
C17_InsufficientPointsRejected ==
    /\ (fn = "measure_perimeter" /\ Len(arg.points) < 2) =>
           (res.raised # "" /\ measurements = arg.self.measurements)
    /\ (fn = "measure_area" /\ Len(arg.points) < 3) =>
           (res.raised # "" /\ measurements = arg.self.measurements)
    /\ (/\ fn = "finalize_measurement"
        /\ \/ arg.measurement_type = "perimeter" /\ Len(arg.points) < 2
           \/ arg.measurement_type = "area" /\ Len(arg.points) < 3) =>
           (res.message \in {"warning", "error"} /\ measurements = arg.self.measurements)

\* C19 (calibration factor invariant): every calibration stored in the
\* processor has pdf_distance > 0 and real_distance > 0.
C19_CalibrationPositive ==
    \A page_num \in DOMAIN page_calibrations :
        /\ page_calibrations[page_num].pdf_distance > 0
        /\ page_calibrations[page_num].real_distance > 0

\* ------------------------------------------------------------------------
\* export_to_json and import_from_json
\* ------------------------------------------------------------------------
Digits == <<"0", "1", "2", "3", "4", "5", "6", "7", "8", "9">>

\* str(n) of an int, which json.dumps applies to an int key of a dict
RECURSIVE str(_)
str(n) == IF n < 0 THEN <<"-">> \o str(-n) ELSE IF n < 10 THEN <<Digits[n + 1]>> ELSE str(n \div 10) \o <<Digits[(n % 10) + 1]>>

IsDigit(c) == \E d \in 1..10 : Digits[d] = c
DigitValue(c) == (CHOOSE d \in 1..10 : Digits[d] = c) - 1

RECURSIVE ParseDigits(_)
ParseDigits(s) == IF s = <<>> THEN 0 ELSE 10 * ParseDigits(SubSeq(s, 1, Len(s) - 1)) + DigitValue(s[Len(s)])

\* int(s) of a str: an optional sign and decimal digits, ValueError otherwise
int(s) ==
    LET body == IF s # <<>> /\ s[1] = "-" THEN Tail(s) ELSE s
    IN  IF body = <<>> \/ \E k \in 1..Len(body) : ~IsDigit(body[k]) THEN Raise("ValueError")
        ELSE Return(IF body = s THEN ParseDigits(body) ELSE 0 - ParseDigits(body))

\* Unit(value) and MeasurementType(value): the member with that value
Unit(value) ==
    IF \E member \in DOMAIN UnitValue : UnitValue[member] = value
    THEN Return(CHOOSE member \in DOMAIN UnitValue : UnitValue[member] = value)
    ELSE Raise("ValueError")

MeasurementType(value) ==
    IF \E member \in DOMAIN MeasurementTypeValue : MeasurementTypeValue[member] = value
    THEN Return(CHOOSE member \in DOMAIN MeasurementTypeValue : MeasurementTypeValue[member] = value)
    ELSE Raise("ValueError")

\* A JSON array, which is what json.dumps writes for a tuple and json.loads
\* reads as a list; tuple(p) makes the list a tuple again
JsonArray(t) == [array |-> t]
tuple(p) == p.array

ScaleCalibration_to_dict(self) ==
    [pdf_distance |-> self.pdf_distance, real_distance |-> self.real_distance,
     unit |-> UnitValue[self.unit]]

ScaleCalibration_from_dict(data) ==
    IF Unit(data.unit).raised # "" THEN Unit(data.unit)
    ELSE Return(ScaleCalibration(data.pdf_distance, data.real_distance, Unit(data.unit).value))

MeasurementResult_to_dict(self) ==
    [type |-> MeasurementTypeValue[self.measurement_type], value_pdf_points |-> self.value,
     value_real |-> self.real_value, unit |-> UnitValue[self.unit], label |-> self.label,
     page_num |-> self.page_num, points |-> self.points, properties |-> self.properties]

\* The JSON text, given as the document it denotes: the keys of the
\* calibrations are strings and every point is an array; a finite float is
\* written so that it reads back as the same float
export_to_json(calibrations, stored) ==
    LET dumps(m) == [m EXCEPT !.points = [k \in 1..Len(m.points) |-> JsonArray(m.points[k])]]
        keys == {str(page) : page \in DOMAIN calibrations}
    IN  [measurements |-> [k \in 1..Len(stored) |-> dumps(MeasurementResult_to_dict(stored[k]))],
         calibrations |-> [key \in keys |->
             ScaleCalibration_to_dict(calibrations[CHOOSE page \in DOMAIN calibrations : str(page) = key])]]

\* The measurement built from one entry of data["measurements"]
ImportedMeasurement(m_data, page_num) ==
    MeasurementResult(MeasurementType(m_data.type).value, m_data.value_pdf_points, m_data.value_real,
                      Unit(m_data.unit).value, [k \in 1..Len(m_data.points) |-> tuple(m_data.points[k])],
                      m_data.label, page_num, m_data.properties)

import_from_json_DefaultPage(calibrations, stored, data) ==
    Return([page_calibrations |-> calibrations,
            measurements |-> stored \o [k \in 1..Len(data.measurements) |->
                                           ImportedMeasurement(data.measurements[k], 0)]])

\* The processor after the call, or ValueError for a key that is no integer
\* or a value that no enum member has; every key the export writes is
\* present, so no .get default applies
import_from_json(calibrations, stored, data) ==
    LET keys == DOMAIN data.calibrations
        pages == {int(key).value : key \in keys}
        key_of(page) == CHOOSE key \in keys : int(key).value = page
    IN  IF \/ \E key \in keys : int(key).raised # ""
           \/ \E key \in keys : ScaleCalibration_from_dict(data.calibrations[key]).raised # ""
           \/ \E k \in 1..Len(data.measurements) :
                  \/ MeasurementType(data.measurements[k].type).raised # ""
                  \/ Unit(data.measurements[k].unit).raised # ""
        THEN Raise("ValueError")
        ELSE Return([page_calibrations |->
                        [page \in DOMAIN calibrations \cup pages |->
                            IF page \in pages
                            THEN ScaleCalibration_from_dict(data.calibrations[key_of(page)]).value
                            ELSE calibrations[page]],
                     measurements |->
                        stored \o [k \in 1..Len(data.measurements) |->
                                      ImportedMeasurement(data.measurements[k],
                                                          data.measurements[k].page_num)]])

JsonPages == {0, 1, 12}

\* One measurement of each type, made under the default calibration and
\* under a calibration in centimetres
JsonMeasurements ==
    { measure_distance(<<>>, Square[1], Square[3], 0, <<>>).value,
      measure_perimeter(12 :> ScaleCalibration(36, 2, "CENTIMETERS"), Square, 12, <<>>).value,
      measure_area(<<>>, Square, 1, <<>>).value }

InitJson ==
    /\ pc = "ready"
    /\ fn = "__init__"
    /\ arg = <<>>
    /\ res = Return(None)
    /\ \E S \in SUBSET JsonPages : page_calibrations \in [S -> Calibrations]
    /\ measurements \in SeqsUpTo(JsonMeasurements, MaxMeasurements)
    /\ words = <<>>
    /\ findings = <<>>
    /\ used = {}
    /\ queue = <<>>
    /\ suggestions = <<>>
    /\ report = EmptyBag

ExportToJson ==
    /\ pc = "ready"
    /\ pc' = "exported"
    /\ fn' = "export_to_json"
    /\ arg' = [self |-> Self]
    /\ res' = Return(export_to_json(page_calibrations, measurements))
    /\ UNCHANGED <<page_calibrations, measurements>>
    /\ UNCHANGED Resolver

\* A fresh MeasurementProcessor() imports the text exported: arg.exporter is
\* the processor that wrote it
ImportFromJson ==
    /\ pc = "exported"
    /\ pc' = "imported"
    /\ fn' = "import_from_json"
    /\ arg' = [self |-> [page_calibrations |-> <<>>, measurements |-> <<>>],
               json_str |-> res.value, exporter |-> arg.self]
    /\ LET done == import_from_json(<<>>, <<>>, res.value)
       IN  /\ res' = [raised |-> done.raised, value |-> None]
           /\ page_calibrations' = IF done.raised = "" THEN done.value.page_calibrations ELSE <<>>
           /\ measurements' = IF done.raised = "" THEN done.value.measurements ELSE <<>>
    /\ UNCHANGED Resolver

NextJson == ExportToJson \/ ImportFromJson

SpecJson == InitJson /\ [][NextJson]_vars

\* C20 (JSON round trip): a fresh processor that imports what a processor
\* exported holds the same measurements in the same order and the same
\* calibration for the same integer pages as the exporting processor.
C20_JsonRoundTrip ==
    pc = "imported" =>
        /\ res.raised = ""
        /\ measurements = arg.exporter.measurements
        /\ page_calibrations = arg.exporter.page_calibrations

C20_Witness ==
    /\ pc = "imported"
    /\ Len(arg.exporter.measurements) = 3
    /\ arg.exporter.measurements[1].measurement_type = "AREA"
    /\ arg.exporter.measurements[2].page_num = 12
    /\ DOMAIN arg.exporter.page_calibrations = {0, 12}
    /\ measurements = arg.exporter.measurements
    /\ DOMAIN page_calibrations = {0, 12}

\* ------------------------------------------------------------------------
\* Further properties of create_detailed_suggestions
\* ------------------------------------------------------------------------
\* C21 (commit only on acceptance): a step that tries a finding either adds a
\* suggestion and marks used exactly the words of its run, whose score is at
\* least 90, or leaves the used flag of every word as it was.
C21_CommitOnAcceptance ==
    [][(pc = "match" /\ queue # <<>>) =>
          IF Len(suggestions') > Len(suggestions)
          THEN /\ used' = used \cup RunSet(suggestions'[Len(suggestions')].matched)
               /\ ScoreGE(CandidateScore(suggestions'[Len(suggestions')].matched,
                                         NormTarget(findings[Head(queue)].text), words),
                          AcceptScore)
          ELSE used' = used]_vars

\* A finding failed after another was placed, and words remain unused
C21_Witness ==
    /\ pc = "done"
    /\ Len(suggestions) >= 1
    /\ report # EmptyBag
    /\ used = UNION {RunSet(suggestions[a].matched) : a \in 1..Len(suggestions)}
    /\ used # 1..Len(words)

\* ------------------------------------------------------------------------
\* create_detailed_suggestions with findings that quote the document: each
\* text is the text of a contiguous run of the page's words, joined by
\* spaces; a word may carry double quotes
\* ------------------------------------------------------------------------
QuotedBennett == <<"\"">> \o Bennett \o <<"\"">>

\* " ".join(w.content for w in run)
JoinedText(W, run) ==
    Flatten([k \in 1..Len(run) |-> IF k = 1 THEN W[run[k]].content
                                   ELSE <<" ">> \o W[run[k]].content])

ContiguousRuns(W) == {Slice([k \in 1..Len(W) |-> k], i, j) : i \in 1..Len(W), j \in 1..Len(W)} \ {<<>>}

InitQuotes ==
    /\ pc = "start"
    /\ words \in Documents({Laura, QuotedBennett}, LineWords)
    /\ findings \in SeqsUpTo([text : {JoinedText(words, run) : run \in ContiguousRuns(words)},
                              source : PageSources(words)], MaxFindings)
    /\ used = {}
    /\ queue = <<>>
    /\ suggestions = <<>>
    /\ report = EmptyBag
    /\ page_calibrations = <<>>
    /\ measurements = <<>>
    /\ fn = "none"
    /\ arg = Idle
    /\ res = Idle

SpecQuotes == InitQuotes /\ [][Next]_vars

\* C22 (same normalization on both sides): the first finding tried, whose
\* text is the space-joined text of a run of words that are all unused, is
\* placed on a run with that text, which scores 100, whatever characters the
\* text holds.
C22_SameNormalization ==
    (pc = "done" /\ findings # <<>>) =>
        \E a \in 1..Len(suggestions) :
            /\ suggestions[a].finding = ProcessingOrder(findings)[1]
            /\ JoinedText(words, suggestions[a].matched) = suggestions[a].text
            /\ ScoreIs(CandidateScore(suggestions[a].matched, NormTarget(suggestions[a].text), words), 100)

\* ------------------------------------------------------------------------
\* Properties of merge_consecutive_word_rects
\* ------------------------------------------------------------------------
Contains(outer, inner) ==
    /\ outer.x0 <= inner.x0
    /\ outer.y0 <= inner.y0
    /\ inner.x1 <= outer.x1
    /\ inner.y1 <= outer.y1

\* The smallest rectangle that contains the rects of a run
Hull(run) ==
    LET lo(S) == CHOOSE x \in S : \A y \in S : x <= y
        hi(S) == CHOOSE x \in S : \A y \in S : x >= y
    IN  Rect(lo({run[k].x0 : k \in 1..Len(run)}), lo({run[k].y0 : k \in 1..Len(run)}),
             hi({run[k].x1 : k \in 1..Len(run)}), hi({run[k].y1 : k \in 1..Len(run)}))

\* The gap from prev to cur is at most 0.75 times the height of prev
GapAllows(prev, cur) == 4 * (cur.x0 - prev.x1) <= 3 * (prev.y1 - prev.y0)

\* The runs of a line: a run starts at the first rect and at every rect whose
\* gap to the rect before it is too wide
RunsOfLine(sorted) ==
    LET starts == AscendingKeys({1} \cup {i \in 2..Len(sorted) : ~GapAllows(sorted[i - 1], sorted[i])})
    IN  [n \in 1..Len(starts) |->
            SubSeq(sorted, starts[n], IF n < Len(starts) THEN starts[n + 1] - 1 ELSE Len(sorted))]

RunsOf(rects) ==
    LET keys == AscendingKeys({RoundCoord(rects[k].y0) : k \in 1..Len(rects)})
    IN  Flatten([n \in 1..Len(keys) |-> RunsOfLine(SortByX0(LineOf(rects, keys[n])))])

\* C23 (merge rule): the output is, line by line in ascending rounded-top
\* order and left to right, the hull of each maximal run of rects whose gaps
\* are within 0.75 times the previous height; every input rect is a member of
\* exactly one run and is contained in that run's output rect; the output is
\* no longer than the input.
C23_MergeRule ==
    (fn = "merge_consecutive_word_rects" /\ pc \in {"returned", "remerged"}) =>
        LET runs == RunsOf(arg)
        IN  /\ res = [n \in 1..Len(runs) |-> Hull(runs[n])]
            /\ Len(res) <= Len(arg)
            /\ \A a, b \in 1..Len(res) :
                   a < b => \/ RoundCoord(res[a].y0) < RoundCoord(res[b].y0)
                            \/ /\ RoundCoord(res[a].y0) = RoundCoord(res[b].y0)
                               /\ res[a].x0 < res[b].x0
            /\ TextCounts(Flatten(runs)) = TextCounts(arg)
            /\ \A n \in 1..Len(runs) : \A k \in 1..Len(runs[n]) : Contains(res[n], runs[n][k])

\* Three rects on two lines, two of them joined into one
C23_Witness ==
    /\ fn = "merge_consecutive_word_rects"
    /\ pc = "returned"
    /\ Len(arg) = 3
    /\ Len(res) = 2
    /\ RoundCoord(res[1].y0) < RoundCoord(res[2].y0)
    /\ \E a \in 1..2 : \E k \in 1..3 : Contains(res[a], arg[k]) /\ res[a] # arg[k]

\* C23 as stated: every input rect lies inside exactly one output rect.
C23_ContainedInExactlyOne ==
    (fn = "merge_consecutive_word_rects" /\ pc = "returned") =>
        \A k \in 1..Len(arg) : Cardinality({a \in 1..Len(res) : Contains(res[a], arg[k])}) = 1

\* ------------------------------------------------------------------------
\* create_detailed_suggestions with paragraph sources whose span ends one
\* character before the end of the paragraph's last word
\* ------------------------------------------------------------------------
CutParagraphSources(W) ==
    {[src EXCEPT !.length = src.length - 1] : src \in ParagraphSources(W)}

InitScope ==
    /\ pc = "start"
    /\ words \in Documents({Laura, Bennett}, PageWords)
    /\ findings \in SeqsUpTo([text : {Laura, Bennett},
                              source : PageSources(words) \cup ParagraphSources(words)
                                           \cup CutParagraphSources(words)], MaxFindings)
    /\ used = {}
    /\ queue = <<>>
    /\ suggestions = <<>>
    /\ report = EmptyBag
    /\ page_calibrations = <<>>
    /\ measurements = <<>>
    /\ fn = "none"
    /\ arg = Idle
    /\ res = Idle

SpecScope == InitScope /\ [][Next]_vars

\* The words of the source's page whose offset lies in [offset, offset + length)
StartsInSpan(item, W) ==
    {k \in 1..Len(W) : /\ W[k].page_number = item.source.page_number
                       /\ W[k].offset >= item.source.offset
                       /\ W[k].offset < item.source.offset + item.source.length}

\* C24 (search scope): the words searched for a paragraph-sourced finding are
\* exactly the words of the paragraph's page that start inside the paragraph
\* span, for a page-sourced finding all words of the page; every word of a
\* suggestion's run is on the suggestion's page and in its source's scope.
C24_SearchScope ==
    /\ (pc = "match" /\ queue # <<>>) =>
           RunSet(WordsToSearch(findings[Head(queue)], words))
               = IF findings[Head(queue)].source.kind = "paragraph"
                 THEN StartsInSpan(findings[Head(queue)], words)
                 ELSE {k \in 1..Len(words) :
                          words[k].page_number = findings[Head(queue)].source.page_number}
    /\ \A a \in 1..Len(suggestions) : \A k \in RunSet(suggestions[a].matched) :
           /\ words[k].page_number - 1 = suggestions[a].page_num
           /\ findings[suggestions[a].finding].source.kind = "paragraph"
                  => k \in StartsInSpan(findings[suggestions[a].finding], words)

\* ------------------------------------------------------------------------
\* merge_small_paragraphs, redaction_logic.py:8-34
\*
\* A paragraph is [content, page_number, offset, length]: para.content,
\* para.bounding_regions[0].page_number and para.spans[0].
\* ------------------------------------------------------------------------
\* redaction_logic.py:23-30: para is merged into the last merged paragraph
MergedInto(previous_para, para) ==
    [previous_para EXCEPT
        !.content = previous_para.content \o <<"\n">> \o para.content,
        !.length = (para.offset + para.length) - previous_para.offset]

\* redaction_logic.py:21-32, the loop from paragraph i on
RECURSIVE MergeLoop(_, _, _, _)
MergeLoop(paragraphs_copy, i, merged_paragraphs, min_length) ==
    IF i > Len(paragraphs_copy) THEN merged_paragraphs
    ELSE IF Len(paragraphs_copy[i].content) < min_length /\ merged_paragraphs # <<>>
         THEN MergeLoop(paragraphs_copy, i + 1,
                        [merged_paragraphs EXCEPT ![Len(merged_paragraphs)] =
                            MergedInto(merged_paragraphs[Len(merged_paragraphs)], paragraphs_copy[i])],
                        min_length)
         ELSE MergeLoop(paragraphs_copy, i + 1, Append(merged_paragraphs, paragraphs_copy[i]), min_length)

merge_small_paragraphs(paragraphs, min_length) ==
    IF paragraphs = <<>> THEN <<>> ELSE MergeLoop(paragraphs, 1, <<>>, min_length)

\* The paragraphs of a layout: contents one after the other, a separator
\* between them, on the given pages
MakeParagraphs(contents, pages) ==
    [i \in 1..Len(contents) |->
        [content |-> contents[i],
         page_number |-> pages[i],
         offset |-> SumSeq([k \in 1..(i - 1) |-> Len(contents[k]) + 1]),
         length |-> Len(contents[i])]]

\* Pages count from 1 and never go back or skip
PageAssignments(n) ==
    {pages \in [1..n -> 1..n] :
        /\ n >= 1 => pages[1] = 1
        /\ \A i \in 2..n : pages[i] \in {pages[i - 1], pages[i - 1] + 1}}

Layouts ==
    UNION {{MakeParagraphs(contents, pages) :
               contents \in [1..n -> {Zoe, Bennett}], pages \in PageAssignments(n)} :
           n \in 0..MaxParagraphs}

MinLengths == {0, 5, 50}

InitParagraphs ==
    /\ pc = "call"
    /\ fn = "merge_small_paragraphs"
    /\ \E paragraphs \in Layouts, min_length \in MinLengths :
           arg = [paragraphs |-> paragraphs, min_length |-> min_length]
    /\ res = Idle
    /\ words = <<>>
    /\ findings = <<>>
    /\ used = {}
    /\ queue = <<>>
    /\ suggestions = <<>>
    /\ report = EmptyBag
    /\ page_calibrations = <<>>
    /\ measurements = <<>>

CallMergeSmallParagraphs ==
    /\ pc = "call"
    /\ fn = "merge_small_paragraphs"
    /\ res' = merge_small_paragraphs(arg.paragraphs, arg.min_length)
    /\ pc' = "returned"
    /\ UNCHANGED <<words, findings, used, queue, suggestions, report, fn, arg, page_calibrations, measurements>>

SpecParagraphs == InitParagraphs /\ [][CallMergeSmallParagraphs]_vars

\* Where the content of a page begins and ends in the layout analysed
PageStart(paragraphs, page_number) ==
    LET on_page == {k \in 1..Len(paragraphs) : paragraphs[k].page_number = page_number}
    IN  paragraphs[CHOOSE k \in on_page : \A m \in on_page : k <= m].offset

PageEnd(paragraphs, page_number) ==
    LET on_page == {k \in 1..Len(paragraphs) : paragraphs[k].page_number = page_number}
        last == CHOOSE k \in on_page : \A m \in on_page : k >= m
    IN  paragraphs[last].offset + paragraphs[last].length

\* C25 (paragraph containment after merging): the span of every paragraph
\* that merge_small_paragraphs returns lies inside the span of the page that
\* the paragraph names.
C25_ParagraphContainment ==
    (fn = "merge_small_paragraphs" /\ pc = "returned") =>
        \A k \in 1..Len(res) :
            /\ res[k].offset >= PageStart(arg.paragraphs, res[k].page_number)
            /\ res[k].offset + res[k].length <= PageEnd(arg.paragraphs, res[k].page_number)

\* ------------------------------------------------------------------------
\* Two successive calls of create_detailed_suggestions with the same layout
\* and findings: arg holds what the first call returned and reported
\* ------------------------------------------------------------------------
InitPasses ==
    /\ pc = "start"
    /\ words \in Documents({Laura, Bennett}, PageWords)
    /\ findings \in FindingLists(words, {Bennett, LauraBennett}, {"page", "paragraph"}, MaxFindings)
    /\ used = {}
    /\ queue = <<>>
    /\ suggestions = <<>>
    /\ report = EmptyBag
    /\ page_calibrations = <<>>
    /\ measurements = <<>>
    /\ fn = "none"
    /\ arg = Idle
    /\ res = Idle

\* The caller calls again: the locals of the call that ended are shown as it
\* left them, and utils.py:118-127 builds them anew
CallAgain ==
    /\ pc = "done"
    /\ fn = "none"
    /\ pc' = "start"
    /\ fn' = "again"
    /\ arg' = [suggestions |-> suggestions, report |-> report, used |-> used]
    /\ UNCHANGED <<words, findings, used, queue, suggestions, report, res, page_calibrations, measurements>>

NextPasses == BuildIndex \/ MatchFinding \/ Finish \/ CallAgain

SpecPasses == InitPasses /\ [][NextPasses]_vars

C26_Monotonic == pc = "match" => used \subseteq used'

C26_PassLocal ==
    /\ (pc = "match" /\ queue = ProcessingOrder(findings)) => used = {}
    /\ (pc = "done" /\ fn = "again") =>
           (suggestions = arg.suggestions /\ report = arg.report /\ used = arg.used)

\* C26 (consumption is monotonic and pass-local): within a call no step
\* resets a used flag; a second call with the same layout and findings starts
\* with every word unused and returns what the first call returned.
C26_MonotonicPassLocal == []C26_PassLocal /\ [][C26_Monotonic]_vars

\* The second call ended with words consumed and a finding left unplaced
C26_Witness ==
    /\ pc = "done"
    /\ fn = "again"
    /\ Len(suggestions) >= 1
    /\ arg.used # {}
    /\ report # EmptyBag

\* ------------------------------------------------------------------------
\* create_detailed_suggestions over two pages, a full first page and the
\* word Bennett on the second, the findings of the pages interleaved in
\* every order
\* ------------------------------------------------------------------------
InitPages ==
    /\ pc = "start"
    /\ words \in {W \in Documents({Laura, Bennett}, PageWords + 1) :
                   Len(W) > PageWords /\ W[Len(W)].content = Bennett}
    /\ findings \in FindingLists(words, {Bennett, LauraBennett}, {"page"}, FailureFindings)
    /\ used = {}
    /\ queue = <<>>
    /\ suggestions = <<>>
    /\ report = EmptyBag
    /\ page_calibrations = <<>>
    /\ measurements = <<>>
    /\ fn = "none"
    /\ arg = Idle
    /\ res = Idle

SpecPages == InitPages /\ [][Next]_vars

\* The findings of page P, as indices in input order
FindingsOf(P) == SelectSeq([k \in 1..Len(findings) |-> k], LAMBDA k : PageNum(findings[k]) = P)

\* The suggestions returned for page P, and those of the call that is given
\* the findings of page P alone
SuggestionsOf(P) == SelectSeq(suggestions, LAMBDA s : s.page_num = P)

AloneOf(P) == create_detailed_suggestions(words, [k \in 1..Len(FindingsOf(P)) |-> findings[FindingsOf(P)[k]]])

\* C27 (cross-page independence): a step that tries a finding of page P
\* changes the used flag of words of page P only, and the suggestions
\* returned for page P (finding, text, page, words, rectangles, order) are
\* those of the call that is given the findings of page P alone, whatever
\* findings of other pages are interleaved with them.
C27_OwnPageOnly ==
    (pc = "match" /\ queue # <<>>) =>
        \A k \in (used' \ used) \cup (used \ used') :
            words[k].page_number - 1 = PageNum(findings[Head(queue)])

SamePagePlacements(mine, alone, own) ==
    /\ Len(mine) = Len(alone)
    /\ \A a \in 1..Len(mine) :
           /\ mine[a].text = alone[a].text
           /\ mine[a].page_num = alone[a].page_num
           /\ mine[a].rects = alone[a].rects
           /\ mine[a].matched = alone[a].matched
           /\ mine[a].finding = own[alone[a].finding]

C27_SameAsAlone ==
    pc = "done" =>
        \A P \in {words[k].page_number - 1 : k \in 1..Len(words)} :
            SamePagePlacements(SuggestionsOf(P), AloneOf(P), FindingsOf(P))

C27_CrossPageIndependence == []C27_SameAsAlone /\ [][C27_OwnPageOnly]_vars

\* A finding of the second page was tried between two findings of the first
\* page, and all three were placed
C27_Witness ==
    /\ pc = "done"
    /\ Len(findings) = 3
    /\ PageNum(findings[1]) = 0
    /\ PageNum(findings[2]) = 1
    /\ PageNum(findings[3]) = 0
    /\ Len(suggestions) = 3

\* C28 (every consumed word backs a suggestion): at the end of a call each
\* word marked used belongs to the matched run of exactly one returned
\* suggestion.
C28_ConsumedWordsBackSuggestions ==
    pc = "done" =>
        \A k \in used :
            Cardinality({a \in 1..Len(suggestions) : k \in RunSet(suggestions[a].matched)}) = 1

\* ------------------------------------------------------------------------
\* Repeated findings: documents of the words Laura and Bennett on one page,
\* and findings asking for "Bennett" (which the word Bennett matches exactly)
\* or "Bennetts" (which it matches with a score of 93.3)
\* ------------------------------------------------------------------------
Bennetts == Bennett \o <<"s">>

InitRepeats ==
    /\ pc = "start"
    /\ words \in Documents({Laura, Bennett}, PageWords)
    /\ findings \in FindingLists(words, {Bennett, Bennetts}, {"page"}, MaxFindings)
    /\ used = {}
    /\ queue = <<>>
    /\ suggestions = <<>>
    /\ report = EmptyBag
    /\ page_calibrations = <<>>
    /\ measurements = <<>>
    /\ fn = "none"
    /\ arg = Idle
    /\ res = Idle

SpecRepeats == InitRepeats /\ [][Next]_vars

\* The runs of the searched words that match the text exactly
Occurrences(text, words_to_search, W) ==
    {run \in UnusedRuns(words_to_search, {}) :
         ScoreIs(CandidateScore(run, NormTarget(text), W), 100)}

\* The findings with the text of finding a that are scoped to the same words
SameScope(a) ==
    {b \in 1..Len(findings) :
         /\ findings[b].text = findings[a].text
         /\ WordsToSearch(findings[b], words) = WordsToSearch(findings[a], words)}

PositionIn(order, a) == CHOOSE k \in 1..Len(order) : order[k] = a

\* The rank of finding a among the findings of its text and scope, in the
\* order in which the findings are processed
RankOfFinding(a) ==
    Cardinality({b \in SameScope(a) :
                     PositionIn(ProcessingOrder(findings), b)
                         <= PositionIn(ProcessingOrder(findings), a)})

\* The rank of an occurrence in document order
RankOfOccurrence(run, occurrences) ==
    Cardinality({other \in occurrences : other[1] <= run[1]})

\* Scan order: smallest start index, then smallest end index
ScanOrderLE(run, other) ==
    \/ run[1] < other[1]
    \/ run[1] = other[1] /\ run[Len(run)] <= other[Len(other)]

\* At the end of a call: where the exact occurrences of a text are disjoint
\* and no finding of another text or scope took a word of the scope, the
\* r-th finding of the text is placed on the r-th occurrence
C29_SuccessiveOccurrences ==
    pc = "done" =>
        \A a \in 1..Len(findings) :
            LET scope == WordsToSearch(findings[a], words)
                occurrences == Occurrences(findings[a].text, scope, words)
            IN  (/\ \A run, other \in occurrences :
                        run # other => RunSet(run) \cap RunSet(other) = {}
                 /\ \A b \in 1..Len(suggestions) :
                        suggestions[b].finding \notin SameScope(a)
                            => RunSet(suggestions[b].matched) \cap RunSet(scope) = {}
                 /\ RankOfFinding(a) <= Cardinality(occurrences))
                    => \E b \in 1..Len(suggestions) :
                           /\ suggestions[b].finding = a
                           /\ suggestions[b].matched \in occurrences
                           /\ RankOfOccurrence(suggestions[b].matched, occurrences)
                                  = RankOfFinding(a)

\* A step that places a finding places it on the first run in scan order
\* among the unused runs of its scope that score the same
C29_FirstInScanOrder ==
    (pc = "match" /\ queue # <<>> /\ Len(suggestions') > Len(suggestions)) =>
        LET item == findings[Head(queue)]
            chosen == suggestions'[Len(suggestions')].matched
        IN  \A run \in UnusedRuns(WordsToSearch(item, words), used) :
                ScoreEq(CandidateScore(run, NormTarget(item.text), words),
                        CandidateScore(chosen, NormTarget(item.text), words))
                    => ScanOrderLE(chosen, run)

checkboxes == arg
all_redactions == res
rejected_before == used

\* app.py:1018, :746, :770
checkbox_key(id) == <<"c", "b", "_">> \o str(id)

\* dict.get(key, default)
Get(d, key, default) == IF key \in DOMAIN d THEN d[key] ELSE default

\* d[key] = value
SetKey(d, key, value) == [k \in DOMAIN d \cup {key} |-> IF k = key THEN value ELSE d[k]]

\* a in b, for two str
IsSubstring(a, b) ==
    \E i \in 0..(Len(b) - Len(a)) : \A k \in 1..Len(a) : b[i + k] = a[k]

\* app.py:279-293; the model's suggestions carry no category, and the
\* category filter stays "All"
filter_suggestions(ss, suggestion_filter) ==
    IF suggestion_filter # <<>>
    THEN SelectSeq(ss, LAMBDA s : IsSubstring(Lower(suggestion_filter), Lower(s.text)))
    ELSE ss

\* app.py:1022-1025
ToRedaction(rect) ==
    [x |-> rect.x0, y |-> rect.y0, w |-> rect.x1 - rect.x0, h |-> rect.y1 - rect.y0]

\* app.py:1021-1025, the appends of one suggestion to the defaultdict
AppendRects(redactions, page_num, rects) ==
    IF rects = <<>> THEN redactions
    ELSE SetKey(redactions, page_num,
                Get(redactions, page_num, <<>>)
                    \o [k \in 1..Len(rects) |-> ToRedaction(rects[k])])

\* app.py:1016-1025
RECURSIVE AddApproved(_, _, _)
AddApproved(ss, session_state, redactions) ==
    IF ss = <<>> THEN redactions
    ELSE AddApproved(Tail(ss), session_state,
                     IF Get(session_state, checkbox_key(Head(ss).id), TRUE)
                     THEN AppendRects(redactions, Head(ss).page_num, Head(ss).rects)
                     ELSE redactions)

\* The uploaded documents and the findings of their analysis: a page of
\* Bennett and Laura in turn, alone or followed by one word on a second page
ReviewDocuments ==
    {W \in Documents({Laura, Bennett}, PageWords + 1) :
         /\ Len(W) >= PageWords
         /\ \A k \in 1..Len(W) : W[k].content = IF k % 2 = 1 THEN Bennett ELSE Laura}

Uploads ==
    UNION {{[words |-> W, findings |-> F, suggestions |-> create_detailed_suggestions(W, F)] :
               F \in FindingLists(W, {Laura, Bennett}, {"page"}, MaxFindings)} :
           W \in ReviewDocuments}

SuggestionFilters == {<<>>, Laura, <<"e", "t", "t">>}

\* app.py:105-128
InitReview ==
    /\ pc = "review"
    /\ fn = "none"
    /\ words = <<>>
    /\ findings = <<>>
    /\ suggestions = <<>>
    /\ checkboxes = <<>>
    /\ all_redactions = <<>>
    /\ rejected_before = {}
    /\ queue = <<>>
    /\ report = EmptyBag
    /\ page_calibrations = <<>>
    /\ measurements = <<>>

\* A new analysis that leaves the checkbox keys in the session
AnalyseClicked_KeepsCheckboxes ==
    /\ pc = "review"
    /\ \E upload \in Uploads :
           /\ words' = upload.words
           /\ findings' = upload.findings
           /\ suggestions' = upload.suggestions
    /\ checkboxes' = checkboxes
    /\ rejected_before' = {id \in 0..MaxFindings : ~Get(checkboxes, checkbox_key(id), TRUE)}
    /\ fn' = "analyse"
    /\ all_redactions' = <<>>
    /\ UNCHANGED <<pc, queue, report, page_calibrations, measurements>>

\* app.py:481-515
AnalyseClicked ==
    /\ pc = "review"
    /\ \E upload \in Uploads :
           /\ words' = upload.words
           /\ findings' = upload.findings
           /\ suggestions' = upload.suggestions                          \* :510-511
    /\ checkboxes' = <<>>                                                \* :513-515
    /\ rejected_before' = {id \in 0..MaxFindings : ~Get(checkboxes, checkbox_key(id), TRUE)}
    /\ fn' = "analyse"
    /\ all_redactions' = <<>>
    /\ UNCHANGED <<pc, queue, report, page_calibrations, measurements>>

\* app.py:464-478
ResetClicked ==
    /\ pc = "review"
    /\ suggestions' = <<>>
    /\ checkboxes' = <<>>
    /\ fn' = "reset"
    /\ all_redactions' = <<>>
    /\ UNCHANGED <<pc, words, findings, used, queue, report, page_calibrations, measurements>>

\* app.py:744-747
ApproveAll ==
    /\ pc = "review"
    /\ checkboxes' = [k \in DOMAIN checkboxes
                            \cup {checkbox_key(suggestions[a].id) : a \in 1..Len(suggestions)} |->
                         IF \E a \in 1..Len(suggestions) : k = checkbox_key(suggestions[a].id)
                         THEN TRUE ELSE checkboxes[k]]
    /\ fn' = "approve_all"
    /\ all_redactions' = <<>>
    /\ UNCHANGED <<pc, words, findings, used, queue, suggestions, report,
                   page_calibrations, measurements>>

\* app.py:749-752
RejectAll ==
    /\ pc = "review"
    /\ checkboxes' = [k \in DOMAIN checkboxes
                            \cup {checkbox_key(suggestions[a].id) : a \in 1..Len(suggestions)} |->
                         IF \E a \in 1..Len(suggestions) : k = checkbox_key(suggestions[a].id)
                         THEN FALSE ELSE checkboxes[k]]
    /\ fn' = "reject_all"
    /\ all_redactions' = <<>>
    /\ UNCHANGED <<pc, words, findings, used, queue, suggestions, report,
                   page_calibrations, measurements>>

\* app.py:754-772, the list of the suggestions under a text filter: a
\* checkbox that has no key yet gets the key with the value True
RenderSuggestions ==
    /\ pc = "review"
    /\ \E suggestion_filter \in SuggestionFilters :
           LET filtered_suggestions == filter_suggestions(suggestions, suggestion_filter)
               shown == {checkbox_key(filtered_suggestions[a].id) :
                             a \in 1..Len(filtered_suggestions)}
           IN  checkboxes' = [k \in DOMAIN checkboxes \cup shown |->
                                  IF k \in DOMAIN checkboxes THEN checkboxes[k] ELSE TRUE]
    /\ fn' = "render"
    /\ all_redactions' = <<>>
    /\ UNCHANGED <<pc, words, findings, used, queue, suggestions, report,
                   page_calibrations, measurements>>

\* app.py:770-781, a click on the checkbox of a listed suggestion
ToggleCheckbox ==
    /\ pc = "review"
    /\ \E a \in 1..Len(suggestions) :
           checkboxes' = SetKey(checkboxes, checkbox_key(suggestions[a].id),
                                ~Get(checkboxes, checkbox_key(suggestions[a].id), TRUE))
    /\ fn' = "toggle"
    /\ all_redactions' = <<>>
    /\ UNCHANGED <<pc, words, findings, used, queue, suggestions, report,
                   page_calibrations, measurements>>

\* app.py:1011-1047
ExportClicked ==
    /\ pc = "review"
    /\ all_redactions' = AddApproved(suggestions, checkboxes, <<>>)
    /\ fn' = "export"
    /\ UNCHANGED <<pc, words, findings, used, queue, suggestions, report, arg,
                   page_calibrations, measurements>>

NextReview ==
    \/ AnalyseClicked
    \/ ResetClicked
    \/ ApproveAll
    \/ RejectAll
    \/ RenderSuggestions
    \/ ToggleCheckbox
    \/ ExportClicked

SpecReview == InitReview /\ [][NextReview]_vars

\* The checkbox of a suggestion is on, or has no key yet
IsApproved(suggestion) ==
    \/ checkbox_key(suggestion.id) \notin DOMAIN checkboxes
    \/ checkboxes[checkbox_key(suggestion.id)]

ApprovedOn(page_num) ==
    SelectSeq(suggestions, LAMBDA s : s.page_num = page_num /\ IsApproved(s))

\* C30 (only approved suggestions are redacted): the redactions built by an
\* export are, page by page, exactly the rects of the current suggestions
\* whose checkbox is on or not yet set; no rect of a rejected suggestion is
\* among those of its page; and after a new analysis every suggestion is approved.
C30_OnlyApprovedRedacted ==
    /\ fn = "export" =>
           /\ DOMAIN all_redactions
                  = {suggestions[a].page_num :
                         a \in {b \in 1..Len(suggestions) : IsApproved(suggestions[b])}}
           /\ \A p \in DOMAIN all_redactions :
                  all_redactions[p]
                      = Flatten([a \in 1..Len(ApprovedOn(p)) |->
                                    [k \in 1..Len(ApprovedOn(p)[a].rects) |->
                                        ToRedaction(ApprovedOn(p)[a].rects[k])]])
           /\ \A a \in 1..Len(suggestions) :
                  ~IsApproved(suggestions[a]) =>
                      \A p \in DOMAIN all_redactions \cap {suggestions[a].page_num} :
                          \A k \in 1..Len(all_redactions[p]) :
                              \A r \in 1..Len(suggestions[a].rects) :
                                  all_redactions[p][k] # ToRedaction(suggestions[a].rects[r])
    /\ fn = "analyse" => \A a \in 1..Len(suggestions) : IsApproved(suggestions[a])

\* An export of two suggestions on two pages, one rejected and one approved
\* whose id was rejected before the last analysis
C30_Witness ==
    /\ fn = "export"
    /\ \E a, b \in 1..Len(suggestions) :
           /\ ~IsApproved(suggestions[a])
           /\ IsApproved(suggestions[b])
           /\ suggestions[b].id \in rejected_before
           /\ suggestions[a].page_num # suggestions[b].page_num
           /\ DOMAIN all_redactions = {suggestions[b].page_num}

====
